---- MODULE Spec2Model ----
(***************************************************************************)
(* Model of the YouTube analysis service: the job orchestrator             *)
(* (AnalysisService.startAnalysis), the record store (dbOperations), the   *)
(* segment fan-out detector (GPTZeroService.processTranscriptionSegments)  *)
(* and the submit route (POST /api/analyze).                               *)
(*                                                                         *)
(* Conventions.  A JavaScript value that may be undefined/NULL is a        *)
(* sequence of length at most one: None is "no value", Some(v) is v.       *)
(* A message built by a template string is the sequence of its parts.      *)
(* A probability is an integer number of hundredths; a mean is the pair    *)
(* [num, den] of the sum and the count it was divided by.                  *)
(***************************************************************************)
EXTENDS Integers, Sequences, FiniteSets, TLC

\* ---------------------------------------------------------------- bounds
MaxSeg == 3          \* longest transcript the fan-out specification draws
MaxOrchSeg == 1      \* longest transcript a transcription adapter returns in a job
MaxElapsed == 1      \* largest elapsed time (ms) a run measures beyond fixed delays
MaxRawSeg == 2       \* longest segment array of a raw speech-to-text response
MaxCallers == 3      \* captureScreenshot calls in flight on the shared YouTubeService

\* ------------------------------------------------------ program constants
DemoDelay == 2000    \* simulateAnalysis waits this long before it returns

Callers == 1..MaxCallers

Jobs == {1, 2}

None == <<>>
Some(v) == <<v>>

\* ------------------------------------------------------------ JS helpers
\* A template-string message is empty only if all its parts are.
NonEmptyMsg(m) == \E i \in DOMAIN m : m[i] # ""

\* Truthiness of an optional message / number / structured value.
TruthyMsg(o) == o # None /\ NonEmptyMsg(o[1])
TruthyNum(o) == o # None /\ o[1] # 0
TruthyVal(o) == o # None

\* JSON.stringify of a defined value is a (non-empty) string that parses
\* back to the value; of undefined it is undefined.
Stringify(o) == IF o = None THEN None ELSE Some([json |-> o[1]])

\* JSON.parse of a stored text: a text JSON.stringify wrote parses to the
\* value it encoded, any other text ([raw |-> ...]) raises a SyntaxError
Parsable(text) == "json" \in DOMAIN text
Parse(text) == text.json

\* String.prototype.trim over the texts the model draws.
Texts == {"", "  ", "hi"}
Trim(t) == IF t = "  " THEN "" ELSE t

\* ------------------------------------------------ segment fan-out detector
Probs == {0, 30, 90}
DetectorError == "Request failed with status code 429"

\* What detectAIProbability returns for one call.
DetectorOutcomes ==
    {[success |-> TRUE, aiProbability |-> p, error |-> None] : p \in Probs}
    \cup {[success |-> FALSE, aiProbability |-> 0, error |-> Some(DetectorError)]}

Zero == [num |-> 0, den |-> 1]

\* x || 0 for a mean
OrZero(o) == IF o = None \/ o[1].num = 0 THEN Zero ELSE o[1]

\* Two means denote the same number.
RatEq(a, b) == a.num * b.den = b.num * a.den

\* The enhanced segment the loop body pushes for one input segment, given
\* the outcome the detector would give for it.
EnhanceSegment(segment, aiResult) ==
    IF Trim(segment.text) # ""
    THEN [text |-> segment.text,
          ai_detection |->
             IF aiResult.success
             THEN [ai_probability |-> Some(aiResult.aiProbability),
                   prediction |-> "detected", error |-> None]
             ELSE [ai_probability |-> None,
                   prediction |-> "", error |-> aiResult.error]]
    ELSE [text |-> segment.text,
          ai_detection |-> [ai_probability |-> Some(0),
                            prediction |-> "empty", error |-> None]]

\* results.filter((r) => r.ai_detection && !r.ai_detection.error)
IsValidResult(r) == ~ TruthyMsg(IF r.ai_detection.error = None THEN None
                                ELSE Some(<<r.ai_detection.error[1]>>))

RECURSIVE SumProb(_)
SumProb(rs) ==
    IF rs = <<>> THEN 0
    ELSE (IF TruthyNum(Head(rs).ai_detection.ai_probability)
          THEN Head(rs).ai_detection.ai_probability[1] ELSE 0)
         + SumProb(Tail(rs))

OverallAIProbability(results) ==
    LET validResults == SelectSeq(results, IsValidResult)
    IN  IF Len(validResults) > 0
        THEN [num |-> SumProb(validResults), den |-> Len(validResults)]
        ELSE Zero

\* processTranscriptionSegments(transcription) where det[i] is the outcome
\* of the detector for segment i.  A transcript is [segments |-> None] when
\* it has no segments array, [segments |-> Some(seq)] otherwise.
processTranscriptionSegments(transcription, det) ==
    IF transcription.segments = None
    THEN [success |-> FALSE,
          error |-> Some("Invalid transcription format"),
          segments |-> Some(<<>>),
          overall_ai_probability |-> None,
          processed_segments |-> None,
          total_segments |-> None]
    ELSE LET segs == transcription.segments[1]
             results == [i \in 1..Len(segs) |-> EnhanceSegment(segs[i], det[i])]
         IN  [success |-> TRUE,
              error |-> None,
              segments |-> Some(results),
              overall_ai_probability |-> Some(OverallAIProbability(results)),
              processed_segments |-> Some(Len(segs)),
              total_segments |-> Some(Len(segs))]


\* ------------------------------------------------------------ record store
StatusOrder == <<"pending", "processing", "video_processed", "audio_converted",
                 "transcribed", "completed">>

NewRecord(id, youtubeUrl) ==
    [id |-> id, youtube_url |-> youtubeUrl, status |-> "pending",
     screenshot_path |-> None, audio_path |-> None,
     transcription |-> None, ai_probabilities |-> None,
     error_message |-> None, processing_time |-> None]

\* insertAnalysis: INSERT ... VALUES (?, ?, 'pending')
insertAnalysis(store, id, youtubeUrl) ==
    [store EXCEPT ![id] = Some(NewRecord(id, youtubeUrl))]

NoData == [screenshotPath |-> None, audioPath |-> None, transcription |-> None,
           aiProbabilities |-> None, errorMessage |-> None, processingTime |-> None]

\* Mutant: the UPDATE binds the two path columns always, NULL when no path
\* was passed.
UpdatedRowBindingPaths(row, status, additionalData) ==
    [row EXCEPT
       !.status = status,
       !.screenshot_path = additionalData.screenshotPath,
       !.audio_path = additionalData.audioPath,
       !.transcription =
           IF TruthyVal(additionalData.transcription)
           THEN Stringify(additionalData.transcription) ELSE @,
       !.ai_probabilities =
           IF TruthyVal(additionalData.aiProbabilities)
           THEN Stringify(additionalData.aiProbabilities) ELSE @,
       !.error_message =
           IF TruthyMsg(additionalData.errorMessage)
           THEN additionalData.errorMessage ELSE @,
       !.processing_time =
           IF TruthyNum(additionalData.processingTime)
           THEN additionalData.processingTime ELSE @]

\* The row an UPDATE built by updateStatus leaves: the status always, every
\* other column only when the value passed for it is truthy.
UpdatedRow(row, status, additionalData) ==
    [row EXCEPT
       !.status = status,
       !.screenshot_path =
           IF TruthyVal(additionalData.screenshotPath)
           THEN additionalData.screenshotPath ELSE @,
       !.audio_path =
           IF TruthyVal(additionalData.audioPath)
           THEN additionalData.audioPath ELSE @,
       !.transcription =
           IF TruthyVal(additionalData.transcription)
           THEN Stringify(additionalData.transcription) ELSE @,
       !.ai_probabilities =
           IF TruthyVal(additionalData.aiProbabilities)
           THEN Stringify(additionalData.aiProbabilities) ELSE @,
       !.error_message =
           IF TruthyMsg(additionalData.errorMessage)
           THEN additionalData.errorMessage ELSE @,
       !.processing_time =
           IF TruthyNum(additionalData.processingTime)
           THEN additionalData.processingTime ELSE @]

\* Mutant: the UPDATE has no WHERE clause.
updateStatusEveryRow(store, id, status, additionalData) ==
    [k \in DOMAIN store |->
        IF store[k] = None THEN None
        ELSE Some(UpdatedRow(store[k][1], status, additionalData))]

\* updateStatus: UPDATE ... WHERE id = ? (no row with that id: nothing changes)
updateStatus(store, id, status, additionalData) ==
    IF store[id] = None THEN store
    ELSE [store EXCEPT ![id] = Some(UpdatedRow(store[id][1], status, additionalData))]

StoreError == <<"SQLITE_BUSY: database is locked">>

\* ---------------------------------------------------------- stage adapters
AdapterErrors == {"bad codec"}

ScreenshotPath(id) == [dir |-> "screenshots", id |-> id, ext |-> "_screenshot.png"]
RawAudioPath(id) == [dir |-> "audio", id |-> id, ext |-> "_audio.webm"]
WavPath(id) == [dir |-> "audio", id |-> id, ext |-> "_converted.wav"]

Failure(e) == [success |-> FALSE, error |-> e]

\* What processVideo / processAudio / transcribeAudio may return.
VideoResults(id) ==
    {[success |-> TRUE, screenshotPath |-> ScreenshotPath(id),
      audioPath |-> RawAudioPath(id)]}
    \cup {Failure(e) : e \in AdapterErrors}

AudioResults(id) ==
    {[success |-> TRUE, wavPath |-> WavPath(id)]}
    \cup {Failure(e) : e \in AdapterErrors}

\* The transcripts a transcription adapter may hand to the orchestrator: the
\* shape processTranscriptionSegments guards against (no segments array) and
\* every segment sequence of at most n segments.
SegSeqs(texts, n) == UNION {[1..k -> {[text |-> t] : t \in texts}] : k \in 0..n}

Transcripts(texts, n) ==
    {[segments |-> None]} \cup {[segments |-> Some(s)] : s \in SegSeqs(texts, n)}

\* the segment texts of the transcripts a job's transcription adapter returns
JobTexts == {"", "hi"}

TranscriptionResults ==
    {[success |-> TRUE, transcription |-> t] : t \in Transcripts(JobTexts, MaxOrchSeg)}
    \cup {Failure(e) : e \in AdapterErrors}

\* Detector outcomes for a transcript, one per segment.
DetectorRuns(outcomes, transcription) ==
    IF transcription.segments = None THEN {<<>>}
    ELSE [1..Len(transcription.segments[1]) -> outcomes]

\* the detector outcomes drawn inside a job: one success, one failure
JobDetectorOutcomes ==
    {o \in DetectorOutcomes : ~ o.success \/ o.aiProbability = 30}

\* ---------------------------------------------------------- simulation path
DemoTranscription ==
    [segments |-> Some(<<[text |-> "This is a demo transcription"],
                         [text |-> "of a YouTube video."],
                         [text |-> "It shows how the system processes audio and generates text with timestamps."]>>)]

DemoAIDetection ==
    [segments |-> <<[text |-> "This is a demo transcription", ai_probability |-> 15],
                    [text |-> "of a YouTube video.", ai_probability |-> 12],
                    [text |-> "It shows how the system processes audio and generates text with timestamps.",
                     ai_probability |-> 8]>>,
     overall_ai_probability |-> 12]

DemoErrors == {"EACCES: permission denied"}

DemoResults(id) ==
    {[success |-> TRUE,
      screenshot_path |-> [dir |-> "screenshots", id |-> id, ext |-> "demo.png"],
      audio_path |-> [dir |-> "data/audio", id |-> id, ext |-> "demo.wav"],
      transcription |-> DemoTranscription,
      ai_probabilities |-> DemoAIDetection]}
    \cup {Failure(e) : e \in DemoErrors}

\* ------------------------------------------------------------ submit route
Urls == {"", "ftp://example.com/video", "https://youtu.be/abc123"}

\* urlPattern.test(youtube_url) over the URLs the model draws
UrlPatternMatches(u) == u \in {"https://youtu.be/abc123"}


\* ------------------------------------------------------------------- state
VARIABLES
    isDemoMode,           \* AnalysisService.isDemoMode, fixed by the constructor
    db,                   \* analysis_results: id -> None | Some(row)
    pc,                   \* where each request's handler stands
    url,                  \* youtube_url of each request
    videoResult,          \* locals of each startAnalysis invocation
    audioResult,
    transcriptionResult,
    aiDetectionResult,
    demoResult,
    error,                \* the error on its way to / caught by the catch block
    ret,                  \* what startAnalysis hands to its caller
    resp,                 \* the HTTP response of POST /api/analyze
    log,                  \* the calls each invocation has made, in order
    storeFailed,          \* a record-store call of the invocation was rejected
    tempFiles,            \* the raw (pre-transcode) audio files on disk
    view,                 \* the response of the last GET /api/result/:id
    fetch,                \* that fetch: its identifier, and what its store lookup did
    completedView,        \* the first response that showed a job as completed
    list,                 \* the response of the last list request
    fanIn,                \* fan-out specification: transcript and detector outcomes
    fanOut,               \* fan-out specification: the result returned
    fanPc,                \* where processTranscriptionSegments stands
    fanResults,           \* its local `results`
    processedCount,       \* its local `processedCount`
    detectorLog,          \* calls and returns of detectAIProbability, in order
    rawResponse,          \* transcription specification: what the speech API answered
    transcribed,          \* transcription specification: what transcribeAudio returned
    browser,              \* YouTubeService.browser: None, or the browser launched n-th
    launches,             \* browsers puppeteer.launch has started so far
    shotPc                \* where each captureScreenshot call stands

orchVars == <<isDemoMode, db, pc, url, videoResult, audioResult,
              transcriptionResult, aiDetectionResult, demoResult, error, ret, resp, log,
              storeFailed, tempFiles, view, fetch, completedView, list>>
readVars == <<view, fetch, completedView, list>>
loopVars == <<fanPc, fanResults, processedCount, detectorLog>>
fanVars == <<fanIn, fanOut, fanPc, fanResults, processedCount, detectorLog>>
sttVars == <<rawResponse, transcribed>>
shotVars == <<browser, launches, shotPc>>
vars == <<isDemoMode, db, pc, url, videoResult, audioResult,
          transcriptionResult, aiDetectionResult, demoResult, error, ret, resp, log,
          storeFailed, tempFiles, view, fetch, completedView, list, fanIn, fanOut, fanPc, fanResults, processedCount, detectorLog,
          rawResponse, transcribed, browser, launches, shotPc>>

NoRet == [kind |-> "none"]
Undefined == [kind |-> "undefined"]
Thrown(e) == [kind |-> "throw", error |-> e]

Init ==
    /\ isDemoMode \in BOOLEAN
    /\ db = [j \in Jobs |-> None]
    /\ pc = [j \in Jobs |-> "idle"]
    /\ url = [j \in Jobs |-> ""]
    /\ videoResult = [j \in Jobs |-> None]
    /\ audioResult = [j \in Jobs |-> None]
    /\ transcriptionResult = [j \in Jobs |-> None]
    /\ aiDetectionResult = [j \in Jobs |-> None]
    /\ demoResult = [j \in Jobs |-> None]
    /\ error = [j \in Jobs |-> None]
    /\ ret = [j \in Jobs |-> NoRet]
    /\ resp = [j \in Jobs |-> None]
    /\ log = [j \in Jobs |-> <<>>]
    /\ storeFailed = [j \in Jobs |-> FALSE]
    /\ tempFiles = {}
    /\ view = None
    /\ fetch = None
    /\ completedView = None
    /\ list = None
    /\ fanIn = None
    /\ fanOut = None
    /\ fanPc = "start"
    /\ fanResults = <<>>
    /\ processedCount = 0
    /\ detectorLog = <<>>
    /\ rawResponse = None
    /\ transcribed = None
    /\ browser = None
    /\ launches = 0
    /\ shotPc = [c \in Callers |-> "idle"]

Ev(op, ok, detail) == [op |-> op, ok |-> ok, detail |-> detail]
Logged(j, e) == log' = [log EXCEPT ![j] = Append(@, e)]
Goto(j, l) == pc' = [pc EXCEPT ![j] = l]

\* Date.now() - startTime: the simulation's delay has passed once it returned.
Elapsed(j) ==
    LET base == IF \E i \in DOMAIN log[j] : log[j][i].op = "simulateAnalysis"
                THEN DemoDelay ELSE 0
    IN  {base + e : e \in 0..MaxElapsed}

\* A record-store call that rejects: the row is untouched, the error is thrown
\* into the try block's catch.
StoreRejects(j, op, detail) ==
    /\ error' = [error EXCEPT ![j] = Some(StoreError)]
    /\ storeFailed' = [storeFailed EXCEPT ![j] = TRUE]
    /\ Logged(j, Ev(op, FALSE, detail))
    /\ Goto(j, "catch")
    /\ UNCHANGED db

\* An updateStatus call of the try block that resolves.
StatusWrite(j, status, additionalData, next) ==
    /\ db' = updateStatus(db, j, status, additionalData)
    /\ Logged(j, Ev("updateStatus", TRUE, status))
    /\ Goto(j, next)
    /\ UNCHANGED <<error, storeFailed>>

\* Mutant: the thrown error carries a fixed text instead of the adapter's.
ThrowGeneric(j, prefix, e) == error' = [error EXCEPT ![j] = Some(<<"Analysis failed">>)]

\* throw new Error(`${prefix}${e}`)
Throw(j, prefix, e) == error' = [error EXCEPT ![j] = Some(<<prefix, e>>)]

\* Mutant: startAnalysis is called whatever the URL.
PostUnvalidated(j) ==
    /\ pc[j] = "idle"
    /\ \E u \in Urls : url' = [url EXCEPT ![j] = u]
    /\ Goto(j, "insert")
    /\ UNCHANGED <<isDemoMode, db, videoResult, audioResult, transcriptionResult,
                   aiDetectionResult, demoResult, error, ret, resp, log, storeFailed,
                   tempFiles, fanVars, readVars, sttVars, shotVars>>

\* ---------------------------------------------- POST /api/analyze, validation
Post(j) ==
    /\ pc[j] = "idle"
    /\ \E u \in Urls :
         /\ url' = [url EXCEPT ![j] = u]
         /\ IF u = ""
            THEN /\ resp' = [resp EXCEPT ![j] =
                        Some([code |-> 400, success |-> FALSE, analysis_id |-> None,
                              error |-> "YouTube URL is required"])]
                 /\ Goto(j, "done")
            ELSE IF ~ UrlPatternMatches(u)
            THEN /\ resp' = [resp EXCEPT ![j] =
                        Some([code |-> 400, success |-> FALSE, analysis_id |-> None,
                              error |-> "Invalid YouTube URL format"])]
                 /\ Goto(j, "done")
            ELSE /\ Goto(j, "insert")
                 /\ UNCHANGED resp
    /\ UNCHANGED <<isDemoMode, db, videoResult, audioResult, transcriptionResult,
                   aiDetectionResult, demoResult, error, ret, log, storeFailed, tempFiles, fanVars, readVars, sttVars, shotVars>>

\* ------------------------------------------------------------ startAnalysis
\* await dbOperations.insertAnalysis(analysisId, youtubeUrl)
Insert(j) ==
    /\ pc[j] = "insert"
    /\ \/ /\ db' = insertAnalysis(db, j, url[j])
          /\ Logged(j, Ev("insertAnalysis", TRUE, "pending"))
          /\ Goto(j, "setProcessing")
          /\ UNCHANGED <<error, storeFailed>>
       \/ StoreRejects(j, "insertAnalysis", "pending")
    /\ UNCHANGED <<isDemoMode, url, videoResult, audioResult, transcriptionResult,
                   aiDetectionResult, demoResult, ret, resp, tempFiles, fanVars, readVars, sttVars, shotVars>>

\* Mutant: the update to processing is not awaited; a rejection is only seen
\* after the branch has been taken.
SetProcessingUnawaited(j) ==
    /\ pc[j] = "setProcessing"
    /\ \/ StatusWrite(j, "processing", NoData,
                      IF isDemoMode THEN "demo" ELSE "video")
       \/ /\ storeFailed' = [storeFailed EXCEPT ![j] = TRUE]
          /\ Logged(j, Ev("updateStatus", FALSE, "processing"))
          /\ Goto(j, IF isDemoMode THEN "demo" ELSE "video")
          /\ UNCHANGED <<db, error>>
    /\ UNCHANGED <<isDemoMode, url, videoResult, audioResult, transcriptionResult,
                   aiDetectionResult, demoResult, ret, resp, tempFiles, fanVars, readVars, sttVars, shotVars>>

\* await dbOperations.updateStatus(analysisId, "processing"), then the branch
SetProcessing(j) ==
    /\ pc[j] = "setProcessing"
    /\ \/ StatusWrite(j, "processing", NoData,
                      IF isDemoMode THEN "demo" ELSE "video")
       \/ StoreRejects(j, "updateStatus", "processing")
    /\ UNCHANGED <<isDemoMode, url, videoResult, audioResult, transcriptionResult,
                   aiDetectionResult, demoResult, ret, resp, tempFiles, fanVars, readVars, sttVars, shotVars>>


Value(success, id, result, err, processingTime) ==
    [kind |-> "value", success |-> success, analysis_id |-> id,
     result |-> result, error |-> err, processing_time |-> processingTime]

\* const demoResult = await this.demoService.simulateAnalysis(...)
SimulateAnalysis(j) ==
    /\ pc[j] = "demo"
    /\ \E r \in DemoResults(j) :
         /\ demoResult' = [demoResult EXCEPT ![j] = Some(r)]
         /\ Logged(j, Ev("simulateAnalysis", r.success,
                         IF r.success THEN "" ELSE r.error))
         /\ IF r.success
            THEN Goto(j, "demoWrite") /\ UNCHANGED error
            ELSE Throw(j, "Demo analysis failed: ", r.error) /\ Goto(j, "catch")
    /\ UNCHANGED <<isDemoMode, db, url, videoResult, audioResult,
                   transcriptionResult, aiDetectionResult, ret, resp,
                   storeFailed, tempFiles, fanVars, readVars, sttVars, shotVars>>

\* Mutant: the simulated run stores no artifact paths.
DemoDataWithoutPaths(r, processingTime) ==
    [screenshotPath |-> None,
     audioPath |-> None,
     transcription |-> Stringify(Some(r.transcription)),
     aiProbabilities |-> Stringify(Some(r.ai_probabilities)),
     errorMessage |-> None,
     processingTime |-> Some(processingTime)]

DemoData(r, processingTime) ==
    [screenshotPath |-> Some(r.screenshot_path),
     audioPath |-> Some(r.audio_path),
     transcription |-> Stringify(Some(r.transcription)),
     aiProbabilities |-> Stringify(Some(r.ai_probabilities)),
     errorMessage |-> None,
     processingTime |-> Some(processingTime)]

DemoReturn(j, r, processingTime) ==
    Value(TRUE, j,
          Some([id |-> j, youtube_url |-> url[j], status |-> "completed",
                screenshot_path |-> Some(r.screenshot_path),
                audio_path |-> Some(r.audio_path),
                transcription |-> Some(r.transcription),
                ai_probabilities |-> Some(r.ai_probabilities),
                processing_time |-> processingTime,
                demo_mode |-> TRUE]),
          None, None)

\* Mutant: the demo branch records a stage-done status before completed.
DemoWriteStaged(j) ==
    /\ pc[j] = "demoWrite"
    /\ \/ /\ db[j] # None /\ db[j][1].status = "processing"
          /\ StatusWrite(j, "transcribed", NoData, "demoWrite")
          /\ UNCHANGED ret
       \/ \E t \in Elapsed(j) :
            /\ StatusWrite(j, "completed", DemoData(demoResult[j][1], t), "finally")
            /\ ret' = [ret EXCEPT ![j] = DemoReturn(j, demoResult[j][1], t)]
       \/ StoreRejects(j, "updateStatus", "completed") /\ UNCHANGED ret
    /\ UNCHANGED <<isDemoMode, url, videoResult, audioResult, transcriptionResult,
                   aiDetectionResult, demoResult, resp, tempFiles, fanVars, readVars, sttVars, shotVars>>

\* the demo branch's updateStatus(analysisId, "completed", {...}) and return
DemoWrite(j) ==
    /\ pc[j] = "demoWrite"
    /\ \/ \E t \in Elapsed(j) :
            /\ StatusWrite(j, "completed", DemoData(demoResult[j][1], t), "finally")
            /\ ret' = [ret EXCEPT ![j] = DemoReturn(j, demoResult[j][1], t)]
       \/ StoreRejects(j, "updateStatus", "completed") /\ UNCHANGED ret
    /\ UNCHANGED <<isDemoMode, url, videoResult, audioResult, transcriptionResult,
                   aiDetectionResult, demoResult, resp, tempFiles, fanVars, readVars, sttVars, shotVars>>

\* Step 1: const videoResult = await this.youtubeService.processVideo(...)
ProcessVideo(j) ==
    /\ pc[j] = "video"
    /\ \E r \in VideoResults(j) :
         /\ videoResult' = [videoResult EXCEPT ![j] = Some(r)]
         /\ Logged(j, Ev("processVideo", r.success,
                         IF r.success THEN "" ELSE r.error))
         \* a successful download has left the raw audio on disk
         /\ tempFiles' = IF r.success THEN tempFiles \cup {r.audioPath} ELSE tempFiles
         /\ IF r.success
            THEN Goto(j, "videoWrite") /\ UNCHANGED error
            ELSE Throw(j, "Video processing failed: ", r.error) /\ Goto(j, "catch")
    /\ UNCHANGED <<isDemoMode, db, url, audioResult, transcriptionResult,
                   aiDetectionResult, demoResult, ret, resp, storeFailed, fanVars, readVars, sttVars, shotVars>>

VideoWrite(j) ==
    /\ pc[j] = "videoWrite"
    /\ \/ StatusWrite(j, "video_processed",
                      [NoData EXCEPT !.screenshotPath =
                                        Some(videoResult[j][1].screenshotPath)],
                      "audio")
       \/ StoreRejects(j, "updateStatus", "video_processed")
    /\ UNCHANGED <<isDemoMode, url, videoResult, audioResult, transcriptionResult,
                   aiDetectionResult, demoResult, ret, resp, tempFiles, fanVars, readVars, sttVars, shotVars>>

\* Step 2: const audioResult = await this.audioService.processAudio(...)
ProcessAudio(j) ==
    /\ pc[j] = "audio"
    /\ \E r \in AudioResults(j) :
         /\ audioResult' = [audioResult EXCEPT ![j] = Some(r)]
         /\ Logged(j, Ev("processAudio", r.success,
                         IF r.success THEN "" ELSE r.error))
         /\ IF r.success
            THEN Goto(j, "audioWrite") /\ UNCHANGED error
            ELSE Throw(j, "Audio conversion failed: ", r.error) /\ Goto(j, "catch")
    /\ UNCHANGED <<isDemoMode, db, url, videoResult, transcriptionResult,
                   aiDetectionResult, demoResult, ret, resp, storeFailed, tempFiles, fanVars, readVars, sttVars, shotVars>>

\* Mutant: the audio_converted write stores a placeholder transcription.
AudioWriteWithDraft(j) ==
    /\ pc[j] = "audioWrite"
    /\ \/ StatusWrite(j, "audio_converted",
                      [NoData EXCEPT !.audioPath = Some(audioResult[j][1].wavPath),
                                     !.transcription = Some([segments |-> None])],
                      "transcribe")
       \/ StoreRejects(j, "updateStatus", "audio_converted")
    /\ UNCHANGED <<isDemoMode, url, videoResult, audioResult, transcriptionResult,
                   aiDetectionResult, demoResult, ret, resp, tempFiles, fanVars, readVars, sttVars, shotVars>>

AudioWrite(j) ==
    /\ pc[j] = "audioWrite"
    /\ \/ StatusWrite(j, "audio_converted",
                      [NoData EXCEPT !.audioPath = Some(audioResult[j][1].wavPath)],
                      "transcribe")
       \/ StoreRejects(j, "updateStatus", "audio_converted")
    /\ UNCHANGED <<isDemoMode, url, videoResult, audioResult, transcriptionResult,
                   aiDetectionResult, demoResult, ret, resp, tempFiles, fanVars, readVars, sttVars, shotVars>>

\* Step 3: const transcriptionResult = await ...transcribeAudio(...)
TranscribeAudio(j) ==
    /\ pc[j] = "transcribe"
    /\ \E r \in TranscriptionResults :
         /\ transcriptionResult' = [transcriptionResult EXCEPT ![j] = Some(r)]
         /\ Logged(j, Ev("transcribeAudio", r.success,
                         IF r.success THEN "" ELSE r.error))
         /\ IF r.success
            THEN Goto(j, "transcribedWrite") /\ UNCHANGED error
            ELSE Throw(j, "Transcription failed: ", r.error) /\ Goto(j, "catch")
    /\ UNCHANGED <<isDemoMode, db, url, videoResult, audioResult,
                   aiDetectionResult, demoResult, ret, resp, storeFailed, tempFiles, fanVars, readVars, sttVars, shotVars>>

\* Mutant: the write after transcription repeats an earlier status.
TranscribedWriteRegresses(j) ==
    /\ pc[j] = "transcribedWrite"
    /\ \/ StatusWrite(j, "processing", NoData, "detect")
       \/ StoreRejects(j, "updateStatus", "transcribed")
    /\ UNCHANGED <<isDemoMode, url, videoResult, audioResult, transcriptionResult,
                   aiDetectionResult, demoResult, ret, resp, tempFiles, fanVars, readVars, sttVars, shotVars>>

TranscribedWrite(j) ==
    /\ pc[j] = "transcribedWrite"
    /\ \/ StatusWrite(j, "transcribed", NoData, "detect")
       \/ StoreRejects(j, "updateStatus", "transcribed")
    /\ UNCHANGED <<isDemoMode, url, videoResult, audioResult, transcriptionResult,
                   aiDetectionResult, demoResult, ret, resp, tempFiles, fanVars, readVars, sttVars, shotVars>>

\* Step 4: const aiDetectionResult = await ...processTranscriptionSegments(...)
Detect(j) ==
    /\ pc[j] = "detect"
    /\ \E det \in DetectorRuns(JobDetectorOutcomes,
                              transcriptionResult[j][1].transcription) :
         LET r == processTranscriptionSegments(
                      transcriptionResult[j][1].transcription, det)
         IN  /\ aiDetectionResult' = [aiDetectionResult EXCEPT ![j] = Some(r)]
             /\ Logged(j, Ev("processTranscriptionSegments", r.success,
                             IF r.success THEN "" ELSE r.error[1]))
             \* success:false is only logged (logger.warn): the run goes on
             /\ Goto(j, "completedWrite")
             /\ UNCHANGED error
    /\ UNCHANGED <<isDemoMode, db, url, videoResult, audioResult,
                   transcriptionResult, demoResult, ret, resp, storeFailed, tempFiles, fanVars, readVars, sttVars, shotVars>>


\* x || 0 for a count
NumOrZero(o) == IF TruthyNum(o) THEN o[1] ELSE 0

\* Step 5: the transcription and ai_probabilities of finalResult
FinalTranscription(aiResult, transcription) ==
    IF TruthyVal(aiResult.segments) THEN aiResult.segments[1] ELSE transcription

FinalAIProbabilities(aiResult) ==
    [overall_ai_probability |-> OrZero(aiResult.overall_ai_probability),
     processed_segments |-> NumOrZero(aiResult.processed_segments),
     total_segments |-> NumOrZero(aiResult.total_segments)]

\* Mutant: no detection payload is passed when the detection stage failed.
FinalDataWithoutDetection(aiResult, transcription, processingTime) ==
    [NoData EXCEPT
       !.transcription = Stringify(Some(FinalTranscription(aiResult, transcription))),
       !.aiProbabilities = IF aiResult.success
                           THEN Stringify(Some(FinalAIProbabilities(aiResult)))
                           ELSE None,
       !.processingTime = Some(processingTime)]

FinalData(aiResult, transcription, processingTime) ==
    [NoData EXCEPT
       !.transcription = Stringify(Some(FinalTranscription(aiResult, transcription))),
       !.aiProbabilities = Stringify(Some(FinalAIProbabilities(aiResult))),
       !.processingTime = Some(processingTime)]

FinalReturn(j, processingTime) ==
    Value(TRUE, j,
          Some([id |-> j, youtube_url |-> url[j], status |-> "completed",
                screenshot_path |-> Some(videoResult[j][1].screenshotPath),
                audio_path |-> Some(audioResult[j][1].wavPath),
                transcription |->
                    Some(FinalTranscription(aiDetectionResult[j][1],
                                            transcriptionResult[j][1].transcription)),
                ai_probabilities |->
                    Some(FinalAIProbabilities(aiDetectionResult[j][1])),
                processing_time |-> processingTime,
                demo_mode |-> FALSE]),
          None, None)

\* Mutant: a statement after the completed write throws into the catch block.
CompletedWriteThenThrows(j) ==
    /\ pc[j] = "completedWrite"
    /\ \/ \E t \in Elapsed(j) :
            /\ db' = updateStatus(db, j, "completed",
                                  FinalData(aiDetectionResult[j][1],
                                            transcriptionResult[j][1].transcription, t))
            /\ Logged(j, Ev("updateStatus", TRUE, "completed"))
            /\ error' = [error EXCEPT ![j] = Some(<<"Cannot read properties of undefined">>)]
            /\ Goto(j, "catch")
            /\ UNCHANGED <<ret, storeFailed>>
       \/ StoreRejects(j, "updateStatus", "completed") /\ UNCHANGED ret
    /\ UNCHANGED <<isDemoMode, url, videoResult, audioResult, transcriptionResult,
                   aiDetectionResult, demoResult, resp, tempFiles, fanVars, readVars, sttVars, shotVars>>

\* the real branch's updateStatus(analysisId, "completed", {...}) and return
CompletedWrite(j) ==
    /\ pc[j] = "completedWrite"
    /\ \/ \E t \in Elapsed(j) :
            /\ StatusWrite(j, "completed",
                           FinalData(aiDetectionResult[j][1],
                                     transcriptionResult[j][1].transcription, t),
                           "finally")
            /\ ret' = [ret EXCEPT ![j] = FinalReturn(j, t)]
       \/ StoreRejects(j, "updateStatus", "completed") /\ UNCHANGED ret
    /\ UNCHANGED <<isDemoMode, url, videoResult, audioResult, transcriptionResult,
                   aiDetectionResult, demoResult, resp, tempFiles, fanVars, readVars, sttVars, shotVars>>

\* Mutant: the catch block stores what the run had transcribed so far.
FailedDataWithTranscript(message, processingTime) ==
    [NoData EXCEPT !.errorMessage = Some(message),
                   !.processingTime = Some(processingTime),
                   !.transcription = Some([segments |-> None])]

FailedData(message, processingTime) ==
    [NoData EXCEPT !.errorMessage = Some(message),
                   !.processingTime = Some(processingTime)]

\* Mutant: the catch block returns the failure without recording it.
CatchWithoutWrite(j) ==
    /\ pc[j] = "catch"
    /\ \E t \in Elapsed(j) :
         ret' = [ret EXCEPT ![j] = Value(FALSE, j, None, Some(error[j][1]), Some(t))]
    /\ Logged(j, Ev("return", TRUE, "failed"))
    /\ Goto(j, "finally")
    /\ UNCHANGED <<isDemoMode, db, url, videoResult, audioResult, transcriptionResult,
                   aiDetectionResult, demoResult, error, storeFailed, resp, tempFiles, fanVars, readVars, sttVars, shotVars>>

\* catch (error) { ... updateStatus(analysisId, "failed", {...}); return {...} }
Catch(j) ==
    /\ pc[j] = "catch"
    /\ \/ \E t \in Elapsed(j) :
            /\ db' = updateStatus(db, j, "failed", FailedData(error[j][1], t))
            /\ Logged(j, Ev("updateStatus", TRUE, "failed"))
            /\ ret' = [ret EXCEPT ![j] =
                          Value(FALSE, j, None, Some(error[j][1]), Some(t))]
            /\ UNCHANGED <<error, storeFailed>>
       \/ /\ ret' = [ret EXCEPT ![j] = Thrown(StoreError)]
          /\ error' = [error EXCEPT ![j] = Some(StoreError)]
          /\ storeFailed' = [storeFailed EXCEPT ![j] = TRUE]
          /\ Logged(j, Ev("updateStatus", FALSE, "failed"))
          /\ UNCHANGED db
    /\ Goto(j, "finally")
    /\ UNCHANGED <<isDemoMode, url, videoResult, audioResult, transcriptionResult,
                   aiDetectionResult, demoResult, resp, tempFiles, fanVars, readVars, sttVars, shotVars>>

\* Mutant: the cleanup step has no try/catch of its own.
AfterFinallyUncaught(demo, outcome) ==
    IF demo THEN Undefined ELSE Thrown(<<"videoResult is not defined">>)

\* What the finally block leaves as the outcome of the call: its bare
\* `return;` in demo mode replaces the value (or the exception) on its way
\* out; in real mode reading videoResult, which is scoped to the try block,
\* throws a ReferenceError that the inner catch logs.
AfterFinally(demo, outcome) == IF demo THEN Undefined ELSE outcome

\* AudioService.cleanupTempFiles: every listed file that exists is unlinked
cleanupTempFiles(fs, filePaths) == fs \ filePaths

\* The names of startAnalysis a statement of the finally block can read;
\* videoResult is a const of the try block.
FinallyScope == {"analysisId", "youtubeUrl", "startTime"}

\* the files the cleanup step of the finally block leaves on disk
FinallyCleanup(j) ==
    IF isDemoMode THEN tempFiles
    ELSE IF "videoResult" \notin FinallyScope THEN tempFiles
    ELSE IF videoResult[j] # None /\ videoResult[j][1].success
         THEN cleanupTempFiles(tempFiles, {videoResult[j][1].audioPath})
         ELSE tempFiles

Finally(j) ==
    /\ pc[j] = "finally"
    /\ tempFiles' = FinallyCleanup(j)
    /\ ret' = [ret EXCEPT ![j] = AfterFinally(isDemoMode, ret[j])]
    /\ Logged(j, Ev("finally", TRUE, IF isDemoMode THEN "return" ELSE "ReferenceError"))
    /\ videoResult' = [videoResult EXCEPT ![j] = None]
    /\ audioResult' = [audioResult EXCEPT ![j] = None]
    /\ transcriptionResult' = [transcriptionResult EXCEPT ![j] = None]
    /\ aiDetectionResult' = [aiDetectionResult EXCEPT ![j] = None]
    /\ demoResult' = [demoResult EXCEPT ![j] = None]
    /\ error' = [error EXCEPT ![j] = None]
    /\ Goto(j, "respond")
    /\ UNCHANGED <<isDemoMode, db, url, resp, storeFailed, fanVars, readVars, sttVars, shotVars>>

\* ------------------------------------------ POST /api/analyze, the response
\* analysisResult.success on undefined is a TypeError, caught like a rejected
\* startAnalysis by the route's catch block.
\* Mutant: the route answers 202 without looking at what startAnalysis
\* returned.
ResponseAccepting(analysisResult) ==
    IF analysisResult.kind = "value"
    THEN [code |-> 202, success |-> TRUE,
          analysis_id |-> Some(analysisResult.analysis_id),
          error |-> ""]
    ELSE [code |-> 500, success |-> FALSE, analysis_id |-> None,
          error |-> "Internal server error"]

Response(analysisResult) ==
    IF analysisResult.kind = "value"
    THEN IF analysisResult.success
         THEN [code |-> 202, success |-> TRUE,
               analysis_id |-> Some(analysisResult.analysis_id),
               error |-> ""]
         ELSE [code |-> 500, success |-> FALSE, analysis_id |-> None,
               error |-> "Failed to start analysis"]
    ELSE [code |-> 500, success |-> FALSE, analysis_id |-> None,
          error |-> "Internal server error"]

Respond(j) ==
    /\ pc[j] = "respond"
    /\ resp' = [resp EXCEPT ![j] = Some(Response(ret[j]))]
    /\ Goto(j, "done")
    /\ UNCHANGED <<isDemoMode, db, url, videoResult, audioResult,
                   transcriptionResult, aiDetectionResult, demoResult, error,
                   ret, log, storeFailed, tempFiles, fanVars, readVars, sttVars, shotVars>>

JobStep(j) ==
    \/ Post(j)
    \/ Insert(j)
    \/ SetProcessing(j)
    \/ SimulateAnalysis(j)
    \/ DemoWrite(j)
    \/ ProcessVideo(j)
    \/ VideoWrite(j)
    \/ ProcessAudio(j)
    \/ AudioWrite(j)
    \/ TranscribeAudio(j)
    \/ TranscribedWrite(j)
    \/ Detect(j)
    \/ CompletedWrite(j)
    \/ Catch(j)
    \/ Finally(j)
    \/ Respond(j)

Next == \E j \in Jobs : JobStep(j)

Spec == Init /\ [][Next]_vars

\* ------------------------------------------------- GET /api/result/:id
\* The identifiers a fetch may carry: 0 stands for a text that is not a UUID,
\* 1 for the UUID of the job the fetches follow (the jobs are interchangeable;
\* before its record is created the identifier has no record).
RequestIds == {0, 1}
uuidPatternMatches(id) == id \in Jobs

NotFound == <<"Analysis not found">>

\* Mutant: a text that fails to parse is handed out as it is stored.
ParseJsonFieldsKeepingText(result) ==
    LET t == result.transcription
        a == result.ai_probabilities
    IN  [transcription |->
             IF TruthyVal(t) /\ Parsable(t[1]) THEN Some(Parse(t[1])) ELSE t,
         aiProbabilities |->
             IF TruthyVal(a) /\ Parsable(a[1]) THEN Some(Parse(a[1])) ELSE a]

\* The inner try block of getAnalysisResult: both variables start as null,
\* the two texts are parsed in turn, and the first SyntaxError leaves the
\* block, so the variables not yet assigned stay null.
ParseJsonFields(result) ==
    LET t == result.transcription
        a == result.ai_probabilities
        tThrows == TruthyVal(t) /\ ~Parsable(t[1])
        aThrows == TruthyVal(a) /\ ~Parsable(a[1])
    IN  [transcription |->
             IF TruthyVal(t) /\ ~tThrows THEN Some(Parse(t[1])) ELSE None,
         aiProbabilities |->
             IF ~tThrows /\ TruthyVal(a) /\ ~aThrows THEN Some(Parse(a[1])) ELSE None]

\* Mutant: an identifier without a record is answered like a failed job.
getAnalysisResultDefaulting(store, id) ==
    IF store[id] = None
    THEN [success |-> TRUE, error |-> None,
          result |-> Some([NewRecord(id, "") EXCEPT
                              !.status = "failed",
                              !.error_message = Some(NotFound)])]
    ELSE LET result == store[id][1]
         IN  [success |-> TRUE, error |-> None,
              result |-> Some([result EXCEPT
                  !.transcription = ParseJsonFields(result).transcription,
                  !.ai_probabilities = ParseJsonFields(result).aiProbabilities])]

\* getAnalysisResult(analysisId), given what getAnalysisById resolved to
getAnalysisResult(store, id) ==
    IF store[id] = None
    THEN [success |-> FALSE, error |-> Some(NotFound), result |-> None]
    ELSE LET result == store[id][1]
         IN  [success |-> TRUE, error |-> None,
              result |-> Some([result EXCEPT
                  !.transcription = ParseJsonFields(result).transcription,
                  !.ai_probabilities = ParseJsonFields(result).aiProbabilities])]

\* getAnalysisResult when getAnalysisById rejects
ReadRejected == [success |-> FALSE, error |-> Some(StoreError), result |-> None]

\* A JSON response: the status code, the keys of the body and the values
\* of the keys the model follows (None for a key that is absent or null).
JsonBody(code, keys) ==
    [code |-> code, keys |-> keys, success |-> FALSE, analysis_id |-> None,
     status |-> None, error |-> None, youtube_url |-> None,
     screenshot_path |-> None, audio_path |-> None, transcription |-> None,
     ai_probabilities |-> None, error_message |-> None, processing_time |-> None]

\* Mutant: the payloads are handed out on the first fetch only.
ResultResponseFirstOnly(id, result) ==
    IF result.success
    THEN [JsonBody(200, {"success", "analysis_id", "status"})
              EXCEPT !.success = TRUE, !.analysis_id = Some(id),
                     !.status = Some(result.result[1].status),
                     !.transcription = IF completedView = None
                                       THEN result.result[1].transcription ELSE None]
    ELSE [JsonBody(500, {"success", "error"}) EXCEPT !.error = result.error]

\* the response of router.get("/:id") to what getAnalysisResult returned
ResultResponse(id, result) ==
    IF result.success
    THEN LET r == result.result[1]
         IN  IF r.status = "pending" \/ r.status = "processing"
             THEN [JsonBody(200, {"success", "analysis_id", "status", "message",
                                  "created_at", "updated_at"})
                       EXCEPT !.success = TRUE, !.analysis_id = Some(id),
                              !.status = Some(r.status)]
             ELSE IF r.status = "failed"
             THEN [JsonBody(200, {"success", "analysis_id", "status", "error_message",
                                  "processing_time", "created_at", "updated_at"})
                       EXCEPT !.success = TRUE, !.analysis_id = Some(id),
                              !.status = Some(r.status),
                              !.error_message = r.error_message,
                              !.processing_time = r.processing_time]
             ELSE [JsonBody(200, {"success", "analysis_id", "status", "youtube_url",
                                  "screenshot_path", "audio_path", "transcription",
                                  "ai_probabilities", "processing_time",
                                  "created_at", "updated_at"})
                       EXCEPT !.success = TRUE, !.analysis_id = Some(id),
                              !.status = Some(r.status),
                              !.youtube_url = Some(r.youtube_url),
                              !.screenshot_path = r.screenshot_path,
                              !.audio_path = r.audio_path,
                              !.transcription = r.transcription,
                              !.ai_probabilities = r.ai_probabilities,
                              !.processing_time = r.processing_time]
    ELSE IF result.error = Some(NotFound)
    THEN [JsonBody(404, {"success", "error", "message"}) EXCEPT !.error = Some(NotFound)]
    ELSE [JsonBody(500, {"success", "error"}) EXCEPT !.error = result.error]

\* what a fetch leaves behind: its response, and the first response that
\* showed the job as completed
Fetched(id, lookup, response) ==
    /\ view' = Some(response)
    /\ fetch' = Some([id |-> id, lookup |-> lookup, repeat |-> completedView # None])
    /\ completedView' =
          IF completedView = None /\ response.status = Some("completed")
          THEN Some(response) ELSE completedView

\* Mutant: the store is asked before the identifier is looked at.
GetResultLookupFirst ==
    /\ \E id \in RequestIds : \E lookup \in {"resolved", "rejected"} :
         Fetched(id, lookup,
                 IF ~ uuidPatternMatches(id)
                 THEN [JsonBody(400, {"success", "error"})
                          EXCEPT !.error = Some(<<"Invalid analysis ID format">>)]
                 ELSE ResultResponse(id, IF lookup = "resolved"
                                         THEN getAnalysisResult(db, id)
                                         ELSE ReadRejected))
    /\ UNCHANGED <<isDemoMode, db, pc, url, videoResult, audioResult,
                   transcriptionResult, aiDetectionResult, demoResult, error, ret,
                   resp, log, storeFailed, tempFiles, list, fanVars, sttVars, shotVars>>

\* GET /api/result/:id, from the request to the response
GetResult ==
    /\ \E id \in RequestIds :
         IF ~ uuidPatternMatches(id)
         THEN Fetched(id, "none",
                      [JsonBody(400, {"success", "error"})
                          EXCEPT !.error = Some(<<"Invalid analysis ID format">>)])
         ELSE \/ Fetched(id, "resolved", ResultResponse(id, getAnalysisResult(db, id)))
              \/ Fetched(id, "rejected", ResultResponse(id, ReadRejected))
    /\ UNCHANGED <<isDemoMode, db, pc, url, videoResult, audioResult,
                   transcriptionResult, aiDetectionResult, demoResult, error, ret,
                   resp, log, storeFailed, tempFiles, list, fanVars, sttVars, shotVars>>

\* the response has been sent and the handler has ended
Deliver ==
    /\ view # None
    /\ view' = None
    /\ fetch' = None
    /\ UNCHANGED <<isDemoMode, db, pc, url, videoResult, audioResult,
                   transcriptionResult, aiDetectionResult, demoResult, error, ret,
                   resp, log, storeFailed, tempFiles, completedView, list, fanVars, sttVars, shotVars>>

\* Requests are served and results are fetched.  A fetch reads the store in
\* one step and no step of a job touches its response, so the jobs move
\* between fetches.
ReadNext ==
    \/ view = None /\ Next
    \/ view = None /\ GetResult
    \/ Deliver

ReadSpec == Init /\ [][ReadNext]_vars

\* ------------------------------------------------ GET /api/result (list)
\* created_at is set by the store when a row is inserted (CURRENT_TIMESTAMP,
\* to the second) and read by the list query alone: the seconds are drawn
\* where the query sorts by them.
MaxStamp == 2

Stored(store) == {id \in Jobs : store[id] # None}

\* Mutant: ORDER BY created_at ASC
OrderByCreatedAsc(store, stamp) ==
    {s \in [1..Cardinality(Stored(store)) -> Stored(store)] :
        /\ \A i, k \in DOMAIN s : i # k => s[i] # s[k]
        /\ \A i, k \in DOMAIN s : i < k => stamp[s[i]] <= stamp[s[k]]}

\* SELECT * ... ORDER BY created_at DESC: the rows in every order the clause
\* allows (rows of the same second come in an order SQL leaves open)
OrderByCreatedDesc(store, stamp) ==
    {s \in [1..Cardinality(Stored(store)) -> Stored(store)] :
        /\ \A i, k \in DOMAIN s : i # k => s[i] # s[k]
        /\ \A i, k \in DOMAIN s : i < k => stamp[s[i]] >= stamp[s[k]]}

\* analyses.map((analysis) => ({...}))
Summary(analysis, createdAt) ==
    [keys |-> {"id", "youtube_url", "status", "created_at", "updated_at",
               "processing_time"},
     id |-> analysis.id, youtube_url |-> analysis.youtube_url,
     status |-> analysis.status, created_at |-> createdAt,
     processing_time |-> analysis.processing_time]

\* the list route's response to what getAllAnalyses returned
ListResponse(store, stamp, rows) ==
    [code |-> 200, success |-> TRUE, error |-> None,
     analyses |-> [i \in DOMAIN rows |-> Summary(store[rows[i]][1], stamp[rows[i]])],
     total |-> Len(rows)]

ListRejected ==
    [code |-> 500, success |-> FALSE, error |-> Some(StoreError),
     analyses |-> <<>>, total |-> 0]

\* Mutant: the list request prunes the failed records it meets.
GetAllPruning ==
    /\ \E stamp \in [Stored(db) -> 1..MaxStamp] :
         \E rows \in OrderByCreatedDesc(db, stamp) :
             list' = Some(ListResponse(db, stamp, rows))
    /\ db' = [id \in Jobs |->
                 IF db[id] # None /\ db[id][1].status = "failed" THEN None ELSE db[id]]
    /\ UNCHANGED <<isDemoMode, pc, url, videoResult, audioResult,
                   transcriptionResult, aiDetectionResult, demoResult, error, ret,
                   resp, log, storeFailed, tempFiles, view, fetch, completedView,
                   fanVars, sttVars, shotVars>>

\* GET /api/result and GET /api/analyze, from the request to the response
GetAll ==
    /\ \/ \E stamp \in [Stored(db) -> 1..MaxStamp] :
            \E rows \in OrderByCreatedDesc(db, stamp) :
                list' = Some(ListResponse(db, stamp, rows))
       \/ list' = Some(ListRejected)
    /\ UNCHANGED <<isDemoMode, db, pc, url, videoResult, audioResult,
                   transcriptionResult, aiDetectionResult, demoResult, error, ret,
                   resp, log, storeFailed, tempFiles, view, fetch, completedView,
                   fanVars, sttVars, shotVars>>

\* ----------------------------------------- the result projection on its own
\* The two reads applied to the stores a service without credentials leaves
\* when no request is being served: each job has no record, or a record as
\* one of the writes of the simulation path left it.
SampleUrl == "https://youtu.be/abc123"

SampleRows(id) ==
    LET pending == NewRecord(id, SampleUrl)
        processing == UpdatedRow(pending, "processing", NoData)
        demo == CHOOSE r \in DemoResults(id) : r.success
    IN  {pending, processing,
         UpdatedRow(processing, "completed", DemoData(demo, DemoDelay)),
         UpdatedRow(processing, "failed",
                    FailedData(<<"Demo analysis failed: ", "EACCES: permission denied">>,
                               DemoDelay))}

ProjectionInit ==
    /\ isDemoMode = TRUE
    /\ db \in [Jobs -> {None} \cup UNION {{Some(r) : r \in SampleRows(id)} : id \in Jobs}]
    /\ \A id \in Stored(db) : db[id][1].id = id
    /\ pc = [j \in Jobs |-> "done"]
    /\ url = [j \in Jobs |-> SampleUrl]
    /\ videoResult = [j \in Jobs |-> None]
    /\ audioResult = [j \in Jobs |-> None]
    /\ transcriptionResult = [j \in Jobs |-> None]
    /\ aiDetectionResult = [j \in Jobs |-> None]
    /\ demoResult = [j \in Jobs |-> None]
    /\ error = [j \in Jobs |-> None]
    /\ ret = [j \in Jobs |-> NoRet]
    /\ resp = [j \in Jobs |-> None]
    /\ log = [j \in Jobs |-> <<>>]
    /\ storeFailed = [j \in Jobs |-> FALSE]
    /\ tempFiles = {}
    /\ view = None
    /\ fetch = None
    /\ completedView = None
    /\ list = None
    /\ fanIn = None
    /\ fanOut = None
    /\ fanPc = "start"
    /\ fanResults = <<>>
    /\ processedCount = 0
    /\ detectorLog = <<>>
    /\ rawResponse = None
    /\ transcribed = None
    /\ browser = None
    /\ launches = 0
    /\ shotPc = [c \in Callers |-> "idle"]

ProjectionNext ==
    \/ GetResult
    \/ GetAll

ProjectionSpec == ProjectionInit /\ [][ProjectionNext]_vars

\* ------------------------------------------- reads of damaged stored texts
\* A text column whose content is not the output of JSON.stringify (a file
\* edited or truncated outside the service).
DamagedText == Some([raw |-> "{\"text\":\"Hel"])

\* a completed record with neither, either or both payload texts damaged
DamagedRows(id) ==
    LET demo == CHOOSE r \in DemoResults(id) : r.success
        row == UpdatedRow(UpdatedRow(NewRecord(id, SampleUrl), "processing", NoData),
                          "completed", DemoData(demo, DemoDelay))
    IN  {[row EXCEPT !.transcription = t, !.ai_probabilities = a] :
             t \in {row.transcription, DamagedText},
             a \in {row.ai_probabilities, DamagedText}}

DamagedInit ==
    /\ isDemoMode = TRUE
    /\ db \in [Jobs -> {None} \cup UNION {{Some(r) : r \in DamagedRows(id)} : id \in Jobs}]
    /\ \A id \in Stored(db) : db[id][1].id = id
    /\ pc = [j \in Jobs |-> "done"]
    /\ url = [j \in Jobs |-> SampleUrl]
    /\ videoResult = [j \in Jobs |-> None]
    /\ audioResult = [j \in Jobs |-> None]
    /\ transcriptionResult = [j \in Jobs |-> None]
    /\ aiDetectionResult = [j \in Jobs |-> None]
    /\ demoResult = [j \in Jobs |-> None]
    /\ error = [j \in Jobs |-> None]
    /\ ret = [j \in Jobs |-> NoRet]
    /\ resp = [j \in Jobs |-> None]
    /\ log = [j \in Jobs |-> <<>>]
    /\ storeFailed = [j \in Jobs |-> FALSE]
    /\ tempFiles = {}
    /\ view = None
    /\ fetch = None
    /\ completedView = None
    /\ list = None
    /\ fanIn = None
    /\ fanOut = None
    /\ fanPc = "start"
    /\ fanResults = <<>>
    /\ processedCount = 0
    /\ detectorLog = <<>>
    /\ rawResponse = None
    /\ transcribed = None
    /\ browser = None
    /\ launches = 0
    /\ shotPc = [c \in Callers |-> "idle"]

DamagedNext ==
    \/ GetResult
    \/ Deliver

DamagedSpec == DamagedInit /\ [][DamagedNext]_vars

\* Every awaited call returns: a request that can take a step takes one.
FairSpec == Spec /\ \A j \in Jobs : WF_vars(JobStep(j))


\* ------------------------------------------- the fan-out detector on its own
\* processTranscriptionSegments applied to every transcript of at most MaxSeg
\* segments, under every run of detector outcomes.
FanInputs ==
    UNION {{[transcription |-> t, det |-> d] : d \in DetectorRuns(DetectorOutcomes, t)} :
              t \in Transcripts(Texts, MaxSeg)}

FanIdle ==
    /\ isDemoMode = FALSE
    /\ db = [j \in Jobs |-> None]
    /\ pc = [j \in Jobs |-> "idle"]
    /\ url = [j \in Jobs |-> ""]
    /\ videoResult = [j \in Jobs |-> None]
    /\ audioResult = [j \in Jobs |-> None]
    /\ transcriptionResult = [j \in Jobs |-> None]
    /\ aiDetectionResult = [j \in Jobs |-> None]
    /\ demoResult = [j \in Jobs |-> None]
    /\ error = [j \in Jobs |-> None]
    /\ ret = [j \in Jobs |-> NoRet]
    /\ resp = [j \in Jobs |-> None]
    /\ log = [j \in Jobs |-> <<>>]
    /\ storeFailed = [j \in Jobs |-> FALSE]
    /\ tempFiles = {}
    /\ view = None
    /\ fetch = None
    /\ completedView = None
    /\ list = None

FanInit ==
    /\ FanIdle
    /\ fanIn \in {Some(i) : i \in FanInputs}
    /\ fanOut = None
    /\ fanPc = "start"
    /\ fanResults = <<>>
    /\ processedCount = 0
    /\ detectorLog = <<>>
    /\ rawResponse = None
    /\ transcribed = None
    /\ browser = None
    /\ launches = 0
    /\ shotPc = [c \in Callers |-> "idle"]

FanApply ==
    /\ fanOut = None
    /\ fanOut' = Some(processTranscriptionSegments(fanIn[1].transcription,
                                                   fanIn[1].det))
    /\ UNCHANGED <<fanIn, orchVars, loopVars, sttVars, shotVars>>

FanNext == FanApply

FanSpec == FanInit /\ [][FanNext]_vars

\* ------------------------------- the fan-out detector called with any value
\* The argument of a call: a transcript object, or null/undefined (None).
CallInputs ==
    {[arg |-> None, det |-> <<>>]}
    \cup {[arg |-> Some(i.transcription), det |-> i.det] : i \in FanInputs}

\* What the promise of processTranscriptionSegments settles to.  The guard's
\* throw lands in the function's own catch, whose returned object reads
\* transcription.segments again: on null or undefined that read is a
\* TypeError raised inside the catch, which rejects the promise.
SegmentsCall(arg, det) ==
    IF arg = None
    THEN Thrown(<<"Cannot read properties of null (reading 'segments')">>)
    ELSE [kind |-> "value", value |-> processTranscriptionSegments(arg[1], det)]

CallInit ==
    /\ FanIdle
    /\ fanIn \in {Some(i) : i \in CallInputs}
    /\ fanOut = None
    /\ fanPc = "start"
    /\ fanResults = <<>>
    /\ processedCount = 0
    /\ detectorLog = <<>>
    /\ rawResponse = None
    /\ transcribed = None
    /\ browser = None
    /\ launches = 0
    /\ shotPc = [c \in Callers |-> "idle"]

CallSettles ==
    /\ fanOut = None
    /\ fanOut' = Some(SegmentsCall(fanIn[1].arg, fanIn[1].det))
    /\ UNCHANGED <<fanIn, orchVars, loopVars, sttVars, shotVars>>

CallNext == CallSettles

CallSpec == CallInit /\ [][CallNext]_vars

\* ---------------------------------------------- the transcription adapter
\* x || d for an optional string / number of the raw response
OrStr(o, d) == IF o = None \/ o[1] = "" THEN d ELSE o[1]
OrNum(o, d) == IF o = None \/ o[1] = 0 THEN d ELSE o[1]

\* The JSON arrays of the raw response: absent (or not an array), or at most
\* n elements, an element being null (None) or an object.
RawArrays(elements, n) ==
    {None} \cup {Some(a) : a \in UNION {[1..k -> {None} \cup {Some(e) : e \in elements}] :
                                          k \in 0..n}}

RawSegments ==
    {[start |-> None, end |-> None, text |-> None, speaker |-> None,
      confidence |-> None],
     [start |-> Some(1), end |-> Some(2), text |-> Some("hi"), speaker |-> Some("A"),
      confidence |-> Some(90)]}

RawSpeakers == {[id |-> Some("A"), name |-> None, segments |-> None]}

RawWords ==
    {[word |-> Some("hi"), start |-> Some(1), end |-> Some(2), confidence |-> None,
      speaker |-> None]}

RawMetadata ==
    {[language |-> None, duration |-> None, confidence |-> None],
     [language |-> Some("de"), duration |-> Some(3), confidence |-> Some(90)]}

\* response.data of the speech-to-text request
RawData ==
    {[text |-> t, segments |-> g, speakers |-> k, words |-> w,
      language |-> m.language, duration |-> m.duration, confidence |-> m.confidence] :
        t \in {None, Some(""), Some("hi")},
        g \in RawArrays(RawSegments, MaxRawSeg),
        k \in RawArrays(RawSpeakers, 1),
        w \in RawArrays(RawWords, 1),
        m \in RawMetadata}

\* What the request settles to: rejected (missing file, network, HTTP status),
\* or a response whose data is empty (None) or a JSON object.
SttResponses ==
    {[rejected |-> TRUE, data |-> None]}
    \cup {[rejected |-> FALSE, data |-> None]}
    \cup {[rejected |-> FALSE, data |-> Some(d)] : d \in RawData}

\* array.map(callback) reads a property of every element: a null element
\* raises a TypeError
MapThrows(array) == array # None /\ \E i \in DOMAIN array[1] : array[1][i] = None

\* the elements a map callback is applied to; none when the field is absent
Elements(array) == IF array = None THEN <<>> ELSE array[1]

FormatSegment(segment) ==
    [start |-> OrNum(segment.start, 0), end |-> OrNum(segment.end, 0),
     text |-> OrStr(segment.text, ""), speaker |-> OrStr(segment.speaker, "unknown"),
     confidence |-> OrNum(segment.confidence, 0)]

FormatSpeaker(speaker) ==
    [id |-> OrStr(speaker.id, "unknown"),
     name |-> IF speaker.name = None \/ speaker.name[1] = ""
              THEN <<"Speaker ", OrStr(speaker.id, "undefined")>>
              ELSE <<speaker.name[1]>>,
     segments |-> IF speaker.segments = None THEN <<>> ELSE speaker.segments[1]]

FormatWord(word) ==
    [word |-> OrStr(word.word, ""), start |-> OrNum(word.start, 0),
     end |-> OrNum(word.end, 0), confidence |-> OrNum(word.confidence, 0),
     speaker |-> OrStr(word.speaker, "unknown")]

\* ElevenLabsService.processTranscription(rawData)
processTranscription(rawData) ==
    IF MapThrows(rawData.segments) \/ MapThrows(rawData.speakers)
       \/ MapThrows(rawData.words)
    THEN [text |-> OrStr(rawData.text, ""),
          segments |-> <<>>, speakers |-> <<>>, wordTimestamps |-> <<>>,
          metadata |-> [language |-> None, duration |-> None, confidence |-> None],
          error |-> Some("Failed to process transcription data")]
    ELSE LET text == OrStr(rawData.text, "")
             duration == OrNum(rawData.duration, 0)
             confidence == OrNum(rawData.confidence, 0)
             segments == [i \in DOMAIN Elements(rawData.segments) |->
                             FormatSegment(Elements(rawData.segments)[i][1])]
         IN  [text |-> text,
              segments |->
                  IF Len(segments) = 0 /\ text # ""
                  THEN <<[start |-> 0, end |-> duration, text |-> text,
                          speaker |-> "unknown", confidence |-> confidence]>>
                  ELSE segments,
              speakers |-> [i \in DOMAIN Elements(rawData.speakers) |->
                                FormatSpeaker(Elements(rawData.speakers)[i][1])],
              wordTimestamps |-> [i \in DOMAIN Elements(rawData.words) |->
                                      FormatWord(Elements(rawData.words)[i][1])],
              metadata |-> [language |-> Some(OrStr(rawData.language, "en")),
                            duration |-> Some(duration),
                            confidence |-> Some(confidence)],
              error |-> None]

\* ElevenLabsService.transcribeAudio, given what its request settled to
transcribeAudio(response) ==
    IF response.rejected
    THEN [success |-> FALSE, transcription |-> None,
          error |-> Some("Request failed with status code 500")]
    ELSE IF response.data # None /\ OrStr(response.data[1].text, "") # ""
    THEN [success |-> TRUE,
          transcription |-> Some(processTranscription(response.data[1])),
          error |-> None]
    ELSE [success |-> FALSE, transcription |-> None,
          error |-> Some("Invalid transcription response")]

SttInit ==
    /\ FanIdle
    /\ fanIn = None
    /\ fanOut = None
    /\ fanPc = "start"
    /\ fanResults = <<>>
    /\ processedCount = 0
    /\ detectorLog = <<>>
    /\ rawResponse \in {Some(r) : r \in SttResponses}
    /\ transcribed = None
    /\ browser = None
    /\ launches = 0
    /\ shotPc = [c \in Callers |-> "idle"]

SttReturns ==
    /\ transcribed = None
    /\ transcribed' = Some(transcribeAudio(rawResponse[1]))
    /\ UNCHANGED <<rawResponse, orchVars, fanVars, shotVars>>

SttNext == SttReturns

SttSpec == SttInit /\ [][SttNext]_vars

\* ------------------------------------- the screenshot step, shared browser
\* Every real-mode job reaches captureScreenshot through processVideo on the
\* one YouTubeService of the AnalysisService; each await of the method is a
\* point where another call may run.
ShotGoto(c, l) == shotPc' = [shotPc EXCEPT ![c] = l]

\* if (!this.browser) { await this.initialize(); }: the test, and the call of
\* puppeteer.launch when the field is unset
ShotEnter(c) ==
    /\ shotPc[c] = "idle"
    /\ ShotGoto(c, IF browser = None THEN "initialize" ELSE "newPage")
    /\ UNCHANGED <<browser, launches>>

\* this.browser = await puppeteer.launch(...): the launch resolves
LaunchResolves(c) ==
    /\ shotPc[c] = "initialize"
    /\ launches' = launches + 1
    /\ browser' = Some(launches + 1)
    /\ ShotGoto(c, "newPage")

\* the launch rejects: initialize rethrows, outside the try of captureScreenshot
LaunchRejects(c) ==
    /\ shotPc[c] = "initialize"
    /\ ShotGoto(c, "thrown")
    /\ UNCHANGED <<browser, launches>>

\* const page = await this.browser.newPage()
NewPage(c) ==
    /\ shotPc[c] = "newPage"
    /\ ShotGoto(c, "page")
    /\ UNCHANGED <<browser, launches>>

\* the try block: goto, waitForSelector, screenshot; any of them may reject
Capture(c) ==
    /\ shotPc[c] = "page"
    /\ \E ok \in BOOLEAN : ShotGoto(c, IF ok THEN "closeThenReturn" ELSE "closeThenThrow")
    /\ UNCHANGED <<browser, launches>>

\* finally { await page.close(); }
ClosePage(c) ==
    /\ shotPc[c] \in {"closeThenReturn", "closeThenThrow"}
    /\ ShotGoto(c, IF shotPc[c] = "closeThenReturn" THEN "returned" ELSE "thrown")
    /\ UNCHANGED <<browser, launches>>

ShotInit ==
    /\ FanIdle
    /\ fanIn = None
    /\ fanOut = None
    /\ fanPc = "start"
    /\ fanResults = <<>>
    /\ processedCount = 0
    /\ detectorLog = <<>>
    /\ rawResponse = None
    /\ transcribed = None
    /\ browser = None
    /\ launches = 0
    /\ shotPc = [c \in Callers |-> "idle"]

ShotStep(c) ==
    /\ \/ ShotEnter(c)
       \/ LaunchResolves(c)
       \/ LaunchRejects(c)
       \/ NewPage(c)
       \/ Capture(c)
       \/ ClosePage(c)
    /\ UNCHANGED <<orchVars, fanVars, sttVars>>

ShotNext == \E c \in Callers : ShotStep(c)

ShotSpec == ShotInit /\ [][ShotNext]_vars


\* ------------------------------------ the fan-out detector, step by step
\* The same function as a process: one step per await of its loop.  The 100 ms
\* pause between two segments changes no state and is part of the step that
\* precedes it.
FanSegs == fanIn[1].transcription.segments[1]

\* the guard on the transcript; a failing guard throws into the outer catch
FanEnter ==
    /\ fanPc = "start"
    /\ fanOut = None
    /\ IF fanIn[1].transcription.segments = None
       THEN /\ fanOut' = Some([success |-> FALSE,
                               error |-> Some("Invalid transcription format"),
                               segments |-> Some(<<>>),
                               overall_ai_probability |-> None,
                               processed_segments |-> None,
                               total_segments |-> None])
            /\ fanPc' = "done"
       ELSE /\ fanPc' = "loop"
            /\ UNCHANGED fanOut
    /\ UNCHANGED <<fanIn, fanResults, processedCount, detectorLog, orchVars, sttVars, shotVars>>

DetectorEv(ev, i) == [ev |-> ev, seg |-> i]

\* Mutant: an empty segment is pushed without being counted.
FanSegmentUncounted ==
    /\ fanPc = "loop"
    /\ Len(fanResults) < Len(FanSegs)
    /\ LET i == Len(fanResults) + 1
       IN  IF Trim(FanSegs[i].text) # ""
           THEN /\ detectorLog' = Append(detectorLog, DetectorEv("call", i))
                /\ fanPc' = "await"
                /\ UNCHANGED <<fanResults, processedCount>>
           ELSE /\ fanResults' = Append(fanResults,
                                        EnhanceSegment(FanSegs[i], fanIn[1].det[i]))
                /\ UNCHANGED <<fanPc, detectorLog, processedCount>>
    /\ UNCHANGED <<fanIn, fanOut, orchVars, sttVars, shotVars>>

\* Mutant: the detector is asked about every segment, empty or not.
FanSegmentCallsAlways ==
    /\ fanPc = "loop"
    /\ Len(fanResults) < Len(FanSegs)
    /\ detectorLog' = Append(detectorLog, DetectorEv("call", Len(fanResults) + 1))
    /\ fanPc' = "await"
    /\ UNCHANGED <<fanIn, fanOut, fanResults, processedCount, orchVars, sttVars, shotVars>>

\* the head of the loop body for the next segment: the detector is called for
\* a segment with text, an empty segment is pushed at once
FanSegment ==
    /\ fanPc = "loop"
    /\ Len(fanResults) < Len(FanSegs)
    /\ LET i == Len(fanResults) + 1
       IN  IF Trim(FanSegs[i].text) # ""
           THEN /\ detectorLog' = Append(detectorLog, DetectorEv("call", i))
                /\ fanPc' = "await"
                /\ UNCHANGED <<fanResults, processedCount>>
           ELSE /\ fanResults' = Append(fanResults,
                                        EnhanceSegment(FanSegs[i], fanIn[1].det[i]))
                /\ processedCount' = processedCount + 1
                /\ UNCHANGED <<fanPc, detectorLog>>
    /\ UNCHANGED <<fanIn, fanOut, orchVars, sttVars, shotVars>>

\* Mutant: a failed detector call ends the whole fan-out.
FanDetectorReturnsOrAborts ==
    /\ fanPc = "await"
    /\ LET i == Len(fanResults) + 1
       IN  /\ detectorLog' = Append(detectorLog, DetectorEv("return", i))
           /\ IF fanIn[1].det[i].success
              THEN /\ fanResults' = Append(fanResults,
                                           EnhanceSegment(FanSegs[i], fanIn[1].det[i]))
                   /\ processedCount' = processedCount + 1
                   /\ fanPc' = "loop"
                   /\ UNCHANGED fanOut
              ELSE /\ fanOut' = Some([success |-> FALSE,
                                      error |-> fanIn[1].det[i].error,
                                      segments |-> Some(FanSegs),
                                      overall_ai_probability |-> None,
                                      processed_segments |-> None,
                                      total_segments |-> None])
                   /\ fanPc' = "done"
                   /\ UNCHANGED <<fanResults, processedCount>>
    /\ UNCHANGED <<fanIn, orchVars, sttVars, shotVars>>

\* await this.detectAIProbability(...) resolves; the enhanced segment is pushed
FanDetectorReturns ==
    /\ fanPc = "await"
    /\ LET i == Len(fanResults) + 1
       IN  /\ detectorLog' = Append(detectorLog, DetectorEv("return", i))
           /\ fanResults' = Append(fanResults,
                                   EnhanceSegment(FanSegs[i], fanIn[1].det[i]))
    /\ processedCount' = processedCount + 1
    /\ fanPc' = "loop"
    /\ UNCHANGED <<fanIn, fanOut, orchVars, sttVars, shotVars>>

\* after the loop: the aggregate and the returned object
FanReturn ==
    /\ fanPc = "loop"
    /\ Len(fanResults) = Len(FanSegs)
    /\ fanOut' = Some([success |-> TRUE,
                       error |-> None,
                       segments |-> Some(fanResults),
                       overall_ai_probability |-> Some(OverallAIProbability(fanResults)),
                       processed_segments |-> Some(processedCount),
                       total_segments |-> Some(Len(FanSegs))])
    /\ fanPc' = "done"
    /\ UNCHANGED <<fanIn, fanResults, processedCount, detectorLog, orchVars, sttVars, shotVars>>

FanLoopNext ==
    \/ FanEnter
    \/ FanSegment
    \/ FanDetectorReturns
    \/ FanReturn

FanLoopSpec == FanInit /\ [][FanLoopNext]_vars


\* ------------------------------- the service and the fan-out side by side
\* Either requests are served, or the fan-out is run on its own on the richer
\* transcripts of FanInputs.
SysInit == Init \/ FanInit

SysNext ==
    \/ fanIn = None /\ Next
    \/ fanIn # None /\ FanLoopNext

SysSpec == SysInit /\ [][SysNext]_vars


\* ================================================================== claims
HasRow(j) == db[j] # None
Status(j) == db[j][1].status
Terminal(st) == st \in {"completed", "failed"}
HasEvent(j, op, ok) ==
    \E i \in DOMAIN log[j] : log[j][i].op = op /\ log[j][i].ok = ok
Wrote(j, status) ==
    \E i \in DOMAIN log[j] : log[j][i] = Ev("updateStatus", TRUE, status)
\* the invocation of startAnalysis has run through its finally block
Returned(j) == pc[j] \in {"respond", "done"} /\ log[j] # <<>>
\* the try/catch blocks have produced their outcome
Settled(j) == pc[j] \in {"finally", "respond", "done"} /\ log[j] # <<>>
Contains(msg, part) == \E i \in DOMAIN msg : msg[i] = part

\* C1: once a record's status is completed or failed, no later step changes
\* the status or any other field of the record.
C1_TerminalImmutable ==
    [][\A j \in Jobs :
          (HasRow(j) /\ Terminal(Status(j))) => db'[j] = db[j]]_vars

C1_Witness ==
    \E j, k \in Jobs :
        /\ pc[j] = "done" /\ HasRow(j) /\ Status(j) = "completed"
        /\ pc[k] = "done" /\ HasRow(k) /\ Status(k) = "failed"

\* C2: every call of startAnalysis whose record-store calls all succeed (and
\* whose awaited calls all return) eventually leaves the record completed or
\* failed.
C2_EventuallyTerminal ==
    \A j \in Jobs :
        (pc[j] = "insert") ~>
            (storeFailed[j] \/ (HasRow(j) /\ Terminal(Status(j))))

C2_Witness ==
    \E j, k \in Jobs :
        /\ ~ storeFailed[j] /\ HasRow(j) /\ Status(j) = "completed"
        /\ ~ storeFailed[k] /\ HasRow(k) /\ Status(k) = "failed"
        /\ HasEvent(k, "transcribeAudio", FALSE)

\* C3: every call of startAnalysis (none of whose store calls was rejected)
\* returns an object with the success flag and the job id: success=true and
\* the completed result when the job completed, success=false and the error
\* message when it failed.
C3_ReturnsResult ==
    \A j \in Jobs :
        (Returned(j) /\ ~ storeFailed[j]) =>
            /\ ret[j].kind = "value"
            /\ ret[j].analysis_id = j
            /\ (HasRow(j) /\ Status(j) = "completed") =>
                   /\ ret[j].success
                   /\ ret[j].result # None
                   /\ ret[j].result[1].status = "completed"
            /\ (HasRow(j) /\ Status(j) = "failed") =>
                   /\ ~ ret[j].success
                   /\ ret[j].error # None

\* C4: in demo mode a POST /api/analyze with a valid YouTube URL whose job
\* completed is answered with a success response carrying the analysis_id.
C4_DemoSubmitSucceeds ==
    \A j \in Jobs :
        (/\ isDemoMode
         /\ pc[j] = "done"
         /\ UrlPatternMatches(url[j])
         /\ HasRow(j) /\ Status(j) = "completed") =>
            /\ resp[j] # None
            /\ resp[j][1].success
            /\ resp[j][1].analysis_id = Some(j)

\* C5: a record is created pending and its status only moves forward along
\* pending, processing, video_processed, audio_converted, transcribed,
\* completed; failed is written only over a non-terminal status.
Rank(st) == CHOOSE i \in DOMAIN StatusOrder : StatusOrder[i] = st
Forward(a, b) ==
    IF b = "failed" THEN ~ Terminal(a)
    ELSE a # "failed" /\ Rank(a) < Rank(b)

C5_StatusForward ==
    [][\A j \in Jobs :
          /\ (~ HasRow(j) /\ db'[j] # None) => db'[j][1].status = "pending"
          /\ (HasRow(j) /\ db'[j] # None /\ db'[j][1].status # Status(j)) =>
                 Forward(Status(j), db'[j][1].status)]_vars

C5_Witness ==
    \E j, k \in Jobs :
        /\ HasRow(j) /\ Status(j) = "completed" /\ Wrote(j, "transcribed")
        /\ HasRow(k) /\ Status(k) = "failed" /\ Wrote(k, "video_processed")

\* C6: a record whose status is completed has its transcription and its
\* ai_probabilities set, also when the detection stage returned success:false.
C6_CompletedHasPayloads ==
    \A j \in Jobs :
        (HasRow(j) /\ Status(j) = "completed") =>
            /\ db[j][1].transcription # None
            /\ db[j][1].ai_probabilities # None

C6_Witness ==
    \E j \in Jobs :
        /\ ~ isDemoMode
        /\ HasRow(j) /\ Status(j) = "completed"
        /\ aiDetectionResult[j] # None
        /\ ~ aiDetectionResult[j][1].success

\* C7: a record whose status is failed has its error_message set and its
\* processing_time set to a non-negative number.
C7_FailedHasMessageAndTime ==
    \A j \in Jobs :
        (HasRow(j) /\ Status(j) = "failed") =>
            /\ db[j][1].error_message # None
            /\ db[j][1].processing_time # None
            /\ db[j][1].processing_time[1] >= 0

\* C8: in real mode the stage adapters run in the order processVideo,
\* processAudio, transcribeAudio, processTranscriptionSegments, each after the
\* previous stage's status write; after a success:false of one of the first
\* three no later adapter runs, and the record ends failed with an
\* error_message that contains the adapter's message.
AdapterOps == <<"processVideo", "processAudio", "transcribeAudio",
                "processTranscriptionSegments">>
StageStatus == <<"processing", "video_processed", "audio_converted", "transcribed">>
IsAdapterCall(e) ==
    e.op \in {"processVideo", "processAudio", "transcribeAudio",
              "processTranscriptionSegments", "simulateAnalysis"}
AdapterCalls(j) == SelectSeq(log[j], IsAdapterCall)

InOrder(j) ==
    /\ Len(AdapterCalls(j)) <= Len(AdapterOps)
    /\ \A i \in DOMAIN AdapterCalls(j) : AdapterCalls(j)[i].op = AdapterOps[i]

AfterStatusWrite(j) ==
    \A i \in DOMAIN log[j] : \A k \in DOMAIN AdapterOps :
        log[j][i].op = AdapterOps[k] =>
            \E m \in 1..(i - 1) : log[j][m] = Ev("updateStatus", TRUE, StageStatus[k])

StageFailedAt(j, i) ==
    /\ log[j][i].op \in {"processVideo", "processAudio", "transcribeAudio"}
    /\ ~ log[j][i].ok

NoLaterAdapter(j) ==
    \A i \in DOMAIN log[j] :
        StageFailedAt(j, i) =>
            \A m \in DOMAIN log[j] : m > i => ~ IsAdapterCall(log[j][m])

EndsFailed(j) ==
    \A i \in DOMAIN log[j] :
        StageFailedAt(j, i) =>
            /\ HasRow(j) /\ Status(j) = "failed"
            /\ db[j][1].error_message # None
            /\ Contains(db[j][1].error_message[1], log[j][i].detail)

Detected(segs, det) ==
    {i \in DOMAIN segs : Trim(segs[i].text) # "" /\ det[i].success}

RECURSIVE SumDetected(_, _)
SumDetected(det, S) ==
    IF S = {} THEN 0
    ELSE LET i == CHOOSE x \in S : TRUE
         IN  det[i].aiProbability + SumDetected(det, S \ {i})

C10_MeanOverDetected ==
    (fanOut # None /\ fanOut[1].success) =>
        LET segs == fanIn[1].transcription.segments[1]
            det == fanIn[1].det
            S == Detected(segs, det)
            overall == fanOut[1].overall_ai_probability[1]
        IN  IF S = {} THEN overall.num = 0
            ELSE RatEq(overall, [num |-> SumDetected(det, S), den |-> Cardinality(S)])

\* The step-by-step fan-out returns what processTranscriptionSegments gives.
FanLoopAgrees ==
    fanOut # None =>
        fanOut[1] = processTranscriptionSegments(fanIn[1].transcription, fanIn[1].det)

\* C11 (fan-out): for a transcript with a segments array the fan-out returns
\* success:true with one output segment per input segment, in input order,
\* each segment whose detector call failed carrying an error marker.
FanOutIsolatesFailures ==
    (fanOut # None /\ fanIn[1].transcription.segments # None) =>
        /\ fanOut[1].success
        /\ Len(fanOut[1].segments[1]) = Len(FanSegs)
        /\ \A i \in DOMAIN FanSegs :
              /\ fanOut[1].segments[1][i].text = FanSegs[i].text
              /\ (Trim(FanSegs[i].text) # "" /\ ~ fanIn[1].det[i].success) =>
                     fanOut[1].segments[1][i].ai_detection.error # None

\* the fan-out of job j returned with a segment marked as failed
JobHasFailedSegment(j) ==
    /\ aiDetectionResult[j] # None
    /\ aiDetectionResult[j][1].success
    /\ \E i \in DOMAIN aiDetectionResult[j][1].segments[1] :
          aiDetectionResult[j][1].segments[1][i].ai_detection.error # None

C12_ProcessedIsTotal ==
    (fanOut # None /\ fanOut[1].success) =>
        /\ fanOut[1].processed_segments = Some(Len(FanSegs))
        /\ fanOut[1].total_segments = Some(Len(FanSegs))

C12_Witness ==
    /\ fanOut # None /\ fanOut[1].success
    /\ fanOut[1].processed_segments = Some(MaxSeg)
    /\ \E i, k \in DOMAIN FanSegs :
          /\ Trim(FanSegs[i].text) = ""
          /\ Trim(FanSegs[k].text) # "" /\ ~ fanIn[1].det[k].success

\* C13: the detector is called exactly once for each segment with non-empty
\* trimmed text and never for an empty or whitespace-only one; the calls are
\* made in segment order and none starts before the previous one returned.
DetectorCalls == SelectSeq(detectorLog, LAMBDA e : e.ev = "call")

C13_DetectorCallsSequential ==
    /\ \A n \in DOMAIN detectorLog :
          IF n % 2 = 1
          THEN detectorLog[n].ev = "call"
          ELSE detectorLog[n] = DetectorEv("return", detectorLog[n - 1].seg)
    /\ \A n \in DOMAIN DetectorCalls :
          /\ Trim(FanSegs[DetectorCalls[n].seg].text) # ""
          /\ n > 1 => DetectorCalls[n - 1].seg < DetectorCalls[n].seg
    /\ (fanOut # None /\ fanOut[1].success) =>
          \A i \in DOMAIN FanSegs :
              Trim(FanSegs[i].text) # "" =>
                  \E n \in DOMAIN DetectorCalls : DetectorCalls[n].seg = i

C13_Witness ==
    /\ fanOut # None /\ fanOut[1].success
    /\ Len(DetectorCalls) = 2
    /\ Len(FanSegs) = MaxSeg
    /\ Trim(FanSegs[2].text) = ""

\* C14: in every run of startAnalysis the creation of the record (pending)
\* and the update to processing have both completed before a stage adapter
\* or the simulation is invoked.
AdapterInvoked(j) ==
    \/ pc[j] \in {"demo", "video", "audio", "transcribe", "detect"}
    \/ \E i \in DOMAIN log[j] : IsAdapterCall(log[j][i])

C14_RecordBeforeStages ==
    \A j \in Jobs :
        AdapterInvoked(j) =>
            /\ Len(log[j]) >= 2
            /\ log[j][1] = Ev("insertAnalysis", TRUE, "pending")
            /\ log[j][2] = Ev("updateStatus", TRUE, "processing")
            /\ HasRow(j)
            /\ \A i \in DOMAIN log[j] : IsAdapterCall(log[j][i]) => i > 2

C14_Witness ==
    \E j, k \in Jobs :
        /\ pc[j] = "done" /\ HasEvent(j, "processTranscriptionSegments", TRUE)
        /\ pc[k] = "video" /\ Len(log[k]) = 2

\* C15: with the API credentials absent, startAnalysis invokes no real stage
\* adapter and writes no stage-done status; after the write of processing ...
StatusWrites(j) == SelectSeq(log[j], LAMBDA e : e.op = "updateStatus")
Details(evs) == [i \in DOMAIN evs |-> evs[i].detail]
NoRealAdapter(j) ==
    \A i \in DOMAIN log[j] : \A k \in DOMAIN AdapterOps : log[j][i].op # AdapterOps[k]
NoStageDoneWrite(j) ==
    \A i \in DOMAIN StatusWrites(j) :
        StatusWrites(j)[i].detail \in {"processing", "completed", "failed"}
SimulationStored(j) == HasEvent(j, "simulateAnalysis", TRUE) /\ ~ storeFailed[j]

\* ... as stated: it performs exactly one more record write, the one that
\* sets status completed.
C15_DemoWritesOnce ==
    isDemoMode =>
        \A j \in Jobs :
            /\ NoRealAdapter(j)
            /\ NoStageDoneWrite(j)
            /\ (Settled(j) /\ Wrote(j, "processing")) =>
                   StatusWrites(j) = <<Ev("updateStatus", TRUE, "processing"),
                                      Ev("updateStatus", TRUE, "completed")>>

\* ... amended: when the simulation succeeds and the store accepts every
\* call, it performs exactly one more record write, the one that sets status
\* completed; otherwise the last write it attempts is the catch block's write
\* of status failed, preceded at most by a rejected write of completed.
C15_DemoWritesOnceIfSimulated ==
    isDemoMode =>
        \A j \in Jobs :
            /\ NoRealAdapter(j)
            /\ NoStageDoneWrite(j)
            /\ (Settled(j) /\ SimulationStored(j)) =>
                   StatusWrites(j) = <<Ev("updateStatus", TRUE, "processing"),
                                      Ev("updateStatus", TRUE, "completed")>>
            /\ (Settled(j) /\ Wrote(j, "processing") /\ ~ SimulationStored(j)) =>
                   /\ Details(StatusWrites(j)) \in
                          {<<"processing", "failed">>,
                           <<"processing", "completed", "failed">>}
                   /\ ~ Wrote(j, "completed")

C15_Witness ==
    /\ isDemoMode
    /\ \E j, k \in Jobs :
          /\ pc[j] = "done" /\ SimulationStored(j) /\ Status(j) = "completed"
          /\ pc[k] = "done" /\ HasEvent(k, "simulateAnalysis", FALSE)
          /\ HasRow(k) /\ Status(k) = "failed"

\* C16: a job submitted with no credentials configured ends with a record of
\* status completed whose stored transcript has 3 segments, whose
\* overall_ai_probability lies between 0 and 1 and whose screenshot_path and
\* audio_path are set ...
DemoRecordComplete(j) ==
    /\ HasRow(j) /\ Status(j) = "completed"
    /\ db[j][1].transcription # None
    /\ Len(Parse(Parse(db[j][1].transcription[1])).segments[1]) = 3
    /\ db[j][1].ai_probabilities # None
    /\ Parse(Parse(db[j][1].ai_probabilities[1])).overall_ai_probability \in 0..100
    /\ db[j][1].screenshot_path # None
    /\ db[j][1].audio_path # None

C17_RawAudioCleaned ==
    \A j \in Jobs :
        (~ isDemoMode /\ Returned(j) /\ HasEvent(j, "processVideo", TRUE)) =>
            RawAudioPath(j) \notin tempFiles

\* C18: an exception raised inside the cleanup step is not propagated to the
\* caller and does not change what startAnalysis returns: the caller gets the
\* outcome the try or catch block produced.
CleanupRaises == ~ isDemoMode /\ "videoResult" \notin FinallyScope

C18_CleanupErrorSwallowed ==
    [][\A j \in Jobs :
          (pc[j] = "finally" /\ pc'[j] = "respond" /\ CleanupRaises) =>
              ret'[j] = ret[j]]_vars

C18_Witness ==
    \E j, k \in Jobs :
        /\ CleanupRaises
        /\ pc[j] = "respond" /\ ret[j].kind = "value" /\ ret[j].success
        /\ pc[k] = "respond" /\ ret[k].kind = "value" /\ ~ ret[k].success

\* C19: no exception leaves startAnalysis: when a record-store call fails at
\* any point, the update to failed inside the catch block included, a
\* real-mode call still returns an outcome of the form {success:false, error}.
C19_NoExceptionEscapes ==
    \A j \in Jobs :
        (~ isDemoMode /\ Returned(j) /\ storeFailed[j]) =>
            /\ ret[j].kind = "value"
            /\ ~ ret[j].success
            /\ ret[j].error # None

\* C20: for every record whose status is neither completed nor failed,
\* GET /api/result/:id returns the in-progress view, which exposes no
\* artifact path; the completed-shaped response is returned only for a
\* record whose status is completed.
ArtifactKeys == {"screenshot_path", "audio_path", "transcription", "ai_probabilities"}

C20_InProgressViewHidesArtifacts ==
    (view # None /\ view[1].code = 200) =>
        /\ ~ Terminal(view[1].status[1]) =>
               /\ view[1].keys \cap ArtifactKeys = {}
               /\ view[1].screenshot_path = None
               /\ view[1].audio_path = None
        /\ view[1].keys \cap ArtifactKeys # {} => view[1].status = Some("completed")

\* C21: for a completed job the transcription and the ai_probabilities that
\* a fetch returns after deserialization are the structured values of the
\* result that startAnalysis built for the job.
C21_RoundTrip ==
    (/\ view # None /\ fetch[1].id = 1
     /\ view[1].status = Some("completed")
     /\ ret[1].kind = "value" /\ ret[1].success) =>
        /\ view[1].ai_probabilities = ret[1].result[1].ai_probabilities
        /\ view[1].transcription = ret[1].result[1].transcription

\* C22: a fetch of an identifier that has no record yields the not-found
\* outcome (404, "Analysis not found") and never a response shaped like a
\* failed job; a fetch of a record with status failed never yields the
\* not-found outcome.  (A fetch whose lookup the store rejects is answered
\* with a 500, which is neither.)
FailedShaped(response) ==
    response.status = Some("failed") \/ "error_message" \in response.keys

LookedUp(id) == fetch # None /\ fetch[1].id = id /\ fetch[1].lookup = "resolved"

C22_NotFoundIsDistinct ==
    \A id \in Jobs :
        /\ (LookedUp(id) /\ db[id] = None) =>
               /\ view[1].code = 404
               /\ view[1].error = Some(NotFound)
               /\ ~ view[1].success
        /\ (fetch # None /\ fetch[1].id = id /\ db[id] = None) =>
               ~ FailedShaped(view[1])
        /\ (fetch # None /\ fetch[1].id = id /\ db[id] # None
              /\ db[id][1].status = "failed") =>
               /\ view[1].code # 404
               /\ view[1].error # Some(NotFound)
               /\ LookedUp(id) => FailedShaped(view[1])

C22_Witness ==
    /\ LookedUp(1) /\ db[1] = None /\ view[1].code = 404
    /\ completedView = None

\* C23: the reads never change the store: over any sequence of fetches and
\* list requests every record keeps its status and fields, and no record is
\* created or deleted.
C23_ReadsLeaveStore == [][db' = db]_vars

C23_Witness ==
    /\ view # None /\ view[1].code = 200
    /\ list # None /\ list[1].success /\ list[1].total = Cardinality(Jobs)

\* C26: a fetch whose identifier does not match the UUID format is answered
\* with a client error and makes no store lookup.
C26_MalformedIdNotLookedUp ==
    fetch # None =>
        (~ uuidPatternMatches(fetch[1].id) <=>
             (view[1].code = 400 /\ fetch[1].lookup = "none"))

C26_Witness ==
    /\ fetch # None /\ fetch[1].id = 0 /\ fetch[1].lookup = "none"
    /\ view[1].code = 400
    /\ Stored(db) = Jobs

C24_CompletedReadsIdentical ==
    (completedView # None /\ LookedUp(completedView[1].analysis_id[1])) =>
        view[1] = completedView[1]

C24_Witness ==
    /\ completedView # None
    /\ LookedUp(1) /\ fetch[1].repeat
    /\ view[1] = completedView[1]
    /\ view[1].transcription # None
    /\ pc[2] = "audio"

\* C25: a submit whose youtube_url is missing or does not match the YouTube
\* URL pattern is answered with a client error, and startAnalysis is not
\* called for it: no job identifier is generated and no record is written.
C25_InvalidSubmitRejected ==
    \A j \in Jobs :
        (pc[j] # "idle" /\ ~ UrlPatternMatches(url[j])) =>
            /\ pc[j] = "done"
            /\ resp[j] # None /\ resp[j][1].code = 400
            /\ log[j] = <<>>
            /\ db[j] = None
            /\ ret[j] = NoRet

C25_Witness ==
    \E j, k \in Jobs :
        /\ pc[j] = "done" /\ url[j] = "" /\ resp[j][1].code = 400
        /\ pc[k] = "done" /\ url[k] = "ftp://example.com/video" /\ resp[k][1].code = 400

\* C27: every call of startAnalysis leaves exactly one record with the job
\* id it returns or reports, also when insertAnalysis fails with a storage
\* error.
C27_OneRecordPerCall ==
    \A j \in Jobs :
        Returned(j) => (HasRow(j) /\ db[j][1].id = j)

\* C28: with the awaits of several startAnalysis calls interleaved in any
\* order, a step of one call changes neither the record nor any other state
\* of another call, and each record is what the successful store calls of
\* its own call make it.
JobState(j) ==
    <<db[j], pc[j], url[j], videoResult[j], audioResult[j], transcriptionResult[j],
      aiDetectionResult[j], demoResult[j], error[j], ret[j], resp[j], log[j],
      storeFailed[j], tempFiles \cap {RawAudioPath(j)}>>

OwnWrites(j) == SelectSeq(log[j], LAMBDA e : e.op = "updateStatus" /\ e.ok)

RecordFromOwnWrites(j) ==
    /\ HasRow(j) <=> HasEvent(j, "insertAnalysis", TRUE)
    /\ HasRow(j) =>
          Status(j) = IF OwnWrites(j) = <<>> THEN "pending"
                      ELSE OwnWrites(j)[Len(OwnWrites(j))].detail

C28_JobsIndependent ==
    [][\A j \in Jobs :
          /\ (\E k \in Jobs \ {j} : pc'[k] # pc[k]) => JobState(j)' = JobState(j)
          /\ RecordFromOwnWrites(j)']_vars

C28_Witness ==
    /\ pc[1] = "done" /\ HasRow(1) /\ Status(1) = "completed"
    /\ pc[2] = "transcribe" /\ Status(2) = "audio_converted"

\* C30: a record whose status is failed has no detection payload: in every
\* run the transcription and the ai_probabilities of the record stay unset
\* until the write of completed, so they are unset before and after a write
\* of failed.
C30_FailedHasNoPayload ==
    \A j \in Jobs :
        (HasRow(j) /\ Status(j) # "completed") =>
            /\ db[j][1].transcription = None
            /\ db[j][1].ai_probabilities = None

C30_Witness ==
    \E j, k \in Jobs :
        /\ HasRow(j) /\ Status(j) = "failed" /\ HasEvent(j, "processAudio", FALSE)
        /\ HasRow(k) /\ Status(k) = "failed"
        /\ HasEvent(k, "processTranscriptionSegments", TRUE)

\* C31: a write of updateStatus changes, besides the status, only the
\* columns for which the call passes a value; once screenshot_path or
\* audio_path of a record is set, every later write of the run, the write of
\* failed included, leaves it at the same value.
Columns == {"status", "screenshot_path", "audio_path", "transcription",
            "ai_probabilities", "error_message", "processing_time"}

Changed(j) == {c \in Columns : db'[j][1][c] # db[j][1][c]}

\* the columns the updateStatus call at a position of startAnalysis passes
PassedAt(l) ==
    CASE l = "videoWrite" -> {"screenshot_path"}
      [] l = "audioWrite" -> {"audio_path"}
      [] l = "completedWrite" -> {"transcription", "ai_probabilities", "processing_time"}
      [] l = "demoWrite" -> {"screenshot_path", "audio_path", "transcription",
                             "ai_probabilities", "processing_time"}
      [] l = "catch" -> {"error_message", "processing_time"}
      [] OTHER -> {}

C31_WritesKeepOtherFields ==
    [][\A j \in Jobs :
          HasRow(j) =>
            /\ db'[j] # None
            /\ db'[j][1].id = db[j][1].id
            /\ db'[j][1].youtube_url = db[j][1].youtube_url
            /\ Changed(j) \subseteq {"status"} \cup PassedAt(pc[j])
            /\ db[j][1].screenshot_path # None =>
                   db'[j][1].screenshot_path = db[j][1].screenshot_path
            /\ db[j][1].audio_path # None =>
                   db'[j][1].audio_path = db[j][1].audio_path]_vars

C31_Witness ==
    \E j \in Jobs :
        /\ HasRow(j) /\ Status(j) = "failed" /\ HasEvent(j, "transcribeAudio", FALSE)
        /\ db[j][1].screenshot_path = Some(ScreenshotPath(j))
        /\ db[j][1].audio_path = Some(WavPath(j))

\* C32: in every run the transcription column and the ai_probabilities column
\* of a record are each written at most once, by the write of completed, and
\* once a column holds a value no later write changes it.
PayloadColumns == {"transcription", "ai_probabilities"}

CompletedWrites(j) ==
    {i \in DOMAIN log[j] :
        /\ log[j][i].op = "updateStatus" /\ log[j][i].ok
        /\ log[j][i].detail = "completed"}

C32_PayloadWrittenOnce ==
    [][\A j \in Jobs :
          /\ Cardinality(CompletedWrites(j))' <= 1
          /\ HasRow(j) =>
               /\ \A c \in PayloadColumns :
                     db[j][1][c] # None => db'[j][1][c] = db[j][1][c]
               /\ Changed(j) \cap PayloadColumns # {} =>
                     /\ pc[j] \in {"completedWrite", "demoWrite"}
                     /\ CompletedWrites(j) = {}]_vars

C32_Witness ==
    \E j \in Jobs :
        /\ ~isDemoMode /\ pc[j] = "done" /\ HasRow(j) /\ Status(j) = "completed"
        /\ db[j][1].transcription # None /\ db[j][1].ai_probabilities # None
        /\ Cardinality(CompletedWrites(j)) = 1

\* C33: when a create or update call of the record store fails during
\* startAnalysis, the caller is answered with the internal error, which is
\* not the answer given for a stage failure, and the job's record is not set
\* to failed on account of the storage error.
C33_StorageErrorIsNotJobFailure ==
    \A j \in Jobs :
        storeFailed[j] =>
            /\ resp[j] # None => resp[j][1].error = "Internal server error"
            /\ HasRow(j) =>
                  ~(Status(j) = "failed" /\ db[j][1].error_message = Some(StoreError))

\* C34: processTranscriptionSegments never throws: for every argument that
\* has no segments array, a null or undefined transcript and an object
\* without segments included, the call returns {success: false, error}.
NoSegmentsArray(arg) == arg = None \/ arg[1].segments = None

C34_NeverThrows ==
    fanOut # None =>
        /\ fanOut[1].kind = "value"
        /\ NoSegmentsArray(fanIn[1].arg) =>
              /\ fanOut[1].value.success = FALSE
              /\ fanOut[1].value.error # None

\* C35: when a stored transcription or ai_probabilities text cannot be
\* deserialized, getAnalysisResult still returns success: true for the
\* record, with the field that could not be parsed set to null; the read is
\* answered 200, not failed.
Unparsable(text) == TruthyVal(text) /\ ~Parsable(text[1])

C35_DamagedPayloadReadsNull ==
    /\ \A id \in Stored(db) :
          LET result == getAnalysisResult(db, id)
          IN  /\ result.success
              /\ result.result[1].status = db[id][1].status
              /\ \A c \in PayloadColumns :
                    Unparsable(db[id][1][c]) => result.result[1][c] = None
    /\ (view # None /\ fetch[1].lookup = "resolved" /\ db[fetch[1].id] # None) =>
          /\ view[1].code = 200 /\ view[1].success
          /\ Unparsable(db[fetch[1].id][1].transcription) =>
                view[1].transcription = None
          /\ Unparsable(db[fetch[1].id][1].ai_probabilities) =>
                view[1].ai_probabilities = None

C35_Witness ==
    /\ view # None /\ fetch[1].lookup = "resolved" /\ db[1] # None
    /\ ~Unparsable(db[1][1].transcription) /\ Unparsable(db[1][1].ai_probabilities)
    /\ view[1].code = 200 /\ view[1].transcription # None
    /\ view[1].ai_probabilities = None

\* C36: every transcript transcribeAudio returns with success: true has the
\* fixed shape with every field defaulted (text, segments, speakers,
\* wordTimestamps, metadata) and holds at least one segment; when the raw
\* response has no segments or an empty segment list, the transcript has
\* exactly one segment, which carries the whole text.
NoRawSegments(data) == data.segments = None \/ data.segments[1] = <<>>

C36_TranscriptShape ==
    (transcribed # None /\ transcribed[1].success) =>
        LET t == transcribed[1].transcription[1]
            data == rawResponse[1].data[1]
        IN  /\ t.error = None
            /\ t.text = data.text[1]
            /\ t.metadata.language # None
            /\ t.metadata.duration # None
            /\ t.metadata.confidence # None
            /\ Len(t.segments) >= 1
            /\ NoRawSegments(data) =>
                  /\ Len(t.segments) = 1
                  /\ t.segments[1].text = t.text

\* C37: in the result of a simulated analysis the overall_ai_probability
\* equals the arithmetic mean of the ai_probability values of the detection
\* segments (in hundredths: 15, 12 and 8).
RECURSIVE SumFixture(_)
SumFixture(segs) ==
    IF segs = <<>> THEN 0 ELSE Head(segs).ai_probability + SumFixture(Tail(segs))

C37_FixtureOverallIsMean ==
    \A j \in Jobs :
        (demoResult[j] # None /\ demoResult[j][1].success) =>
            LET detection == demoResult[j][1].ai_probabilities
            IN  /\ Len(detection.segments) > 0
                /\ RatEq([num |-> detection.overall_ai_probability, den |-> 1],
                         [num |-> SumFixture(detection.segments),
                          den |-> Len(detection.segments)])

\* C38: in real mode, whenever POST /api/analyze has answered 202 (status
\* 'processing'), the job's record already has status completed, and a
\* fetch of the job made after the response shows completed, never a
\* non-terminal status.
Accepted(j) == resp[j] # None /\ resp[j][1].code = 202

C39_OneBrowser ==
    /\ launches <= 1
    /\ Cardinality({c \in Callers : shotPc[c] = "initialize"}) <= 1

====
